---- MODULE Spec2Model ----
(***************************************************************************)
(* Model of the tabular normalization and aggregation core of the         *)
(* strategic console: src/app.py (Cell Normalizer functions and the       *)
(* per-report Table Builders), src/generate_standalone.py (the builders   *)
(* of the standalone page) and src/services/google_sheets.py (the table   *)
(* source).                                                               *)
(*                                                                         *)
(* Python values are records tagged by the field t:                        *)
(*   [t |-> "None"]                          None                          *)
(*   [t |-> "nan"]                           float('nan') (a blank cell)   *)
(*   [t |-> "str", s |-> <<c1, ..., cn>>]    a str, one character per      *)
(*                                           element                       *)
(*   [t |-> "int", neg, m]                   an int, value (+/-) m         *)
(*   [t |-> "float", neg, m, x]              a finite float whose value is *)
(*                                           the decimal (+/-) m / 10^x, x *)
(*                                           an integer of either sign     *)
(*   [t |-> "raise", e |-> "ValueError"]     an exception propagating out  *)
(*                                           of the call                   *)
(* Characters outside ASCII are written by their code point: "u0663" is   *)
(* ARABIC-INDIC DIGIT THREE, "u00A0" the non-breaking space, "u2192" the  *)
(* arrow and "u2014" the em dash.                                          *)
(***************************************************************************)
EXTENDS Integers, Sequences, FiniteSets, TLC

VARIABLES
    raw,        \* Cell Normalizer: the raw cell value handed to the function
    decimals,   \* Cell Normalizer: the decimals argument of fmt_money, <<>> when
                \* it is left out and <<d>> when it is given
    fn,         \* Cell Normalizer: the function applied ("none" before the call)
    out,        \* Cell Normalizer: what the call returned (or raised)
    workbook,   \* table source: the state of strategic_insight.xlsx
    req,        \* reports: the call being answered, [fn |-> name, args |-> <<...>>],
                \* fn "none" between two requests
    ctx,        \* reports: what that call returned (or raised)
    standalone_sheets   \* generate_standalone.py: `sheets`, the dict of tables
                \* load_excel_data returned to the running script, None
                \* before it has loaded

vars == <<raw, decimals, fn, out, workbook, req, ctx, standalone_sheets>>

cellVars == <<raw, decimals, fn, out>>

(***************************************************************************)
(* Bounds of the model.                                                    *)
(***************************************************************************)
\* longest raw cell string drawn from the alphabet
MaxLen == 3
\* most markup fragments joined into a raw cell string
MaxFragments == 3
\* largest decimals argument handed to fmt_money
MaxDecimals == 2

(***************************************************************************)
(* Python values.                                                          *)
(***************************************************************************)
None == [t |-> "None"]
NaN == [t |-> "nan"]
Str(s) == [t |-> "str", s |-> s]
Raise(e) == [t |-> "raise", e |-> e]

RECURSIVE Pow(_, _)
Pow(b, e) == IF e = 0 THEN 1 ELSE b * Pow(b, e - 1)

\* the float (+/-) m / 10^x, where x may be negative; trailing zeros of m are
\* moved into x so that equal floats are equal records (-0.0 and 0.0 stay
\* apart, as their formats do)
RECURSIVE MkFloat(_, _, _)
MkFloat(neg, m, x) ==
    IF m = 0 THEN [t |-> "float", neg |-> neg, m |-> 0, x |-> 0]
    ELSE IF m % 10 = 0 THEN MkFloat(neg, m \div 10, x - 1)
    ELSE [t |-> "float", neg |-> neg, m |-> m, x |-> x]

MkInt(neg, m) == [t |-> "int", neg |-> neg /\ m # 0, m |-> m]

\* the decimal exponent of a number: it is m / 10^x
Exp10(v) == IF v.t = "int" THEN 0 ELSE v.x

IsStr(v) == v.t = "str"
IsRaise(v) == v.t = "raise"
IsNumber(v) == v.t \in {"int", "float"}

\* The empty str
EmptyStr == Str(<<>>)

(***************************************************************************)
(* Characters.                                                             *)
(***************************************************************************)
AsciiDigits == {"0", "1", "2", "3", "4", "5", "6", "7", "8", "9"}
\* decimal digits outside ASCII (Unicode category Nd) that occur in the model
UnicodeDigits == {"u0663"}
\* str.isspace(): what str.strip() removes and \s matches
Whitespace == {" ", "\t", "\n", "\r", "u00A0"}

DigitValue(c) ==
    CASE c = "0" -> 0 [] c = "1" -> 1 [] c = "2" -> 2 [] c = "3" -> 3
      [] c = "4" -> 4 [] c = "5" -> 5 [] c = "6" -> 6 [] c = "7" -> 7
      [] c = "8" -> 8 [] c = "9" -> 9 [] c = "u0663" -> 3

DigitChar(d) ==
    CASE d = 0 -> "0" [] d = 1 -> "1" [] d = 2 -> "2" [] d = 3 -> "3"
      [] d = 4 -> "4" [] d = 5 -> "5" [] d = 6 -> "6" [] d = 7 -> "7"
      [] d = 8 -> "8" [] d = 9 -> "9"

\* the regular expression class \d on a str pattern: every Unicode decimal digit
IsReDigit(c) == c \in AsciiDigits \cup UnicodeDigits

(***************************************************************************)
(* str helpers.                                                            *)
(***************************************************************************)
\* s.replace(c, '') for a single character c
RemoveChar(s, c) == SelectSeq(s, LAMBDA ch : ch # c)

RECURSIVE LStrip(_)
LStrip(s) == IF s # <<>> /\ Head(s) \in Whitespace THEN LStrip(Tail(s)) ELSE s

RECURSIVE RStrip(_)
RStrip(s) ==
    IF s # <<>> /\ s[Len(s)] \in Whitespace THEN RStrip(SubSeq(s, 1, Len(s) - 1))
    ELSE s

\* s.strip()
Strip(s) == RStrip(LStrip(s))

\* the decimal digits of the natural number n, most significant first
RECURSIVE NatDigits(_)
NatDigits(n) ==
    IF n < 10 THEN <<DigitChar(n)>>
    ELSE Append(NatDigits(n \div 10), DigitChar(n % 10))

\* the value of a run of digit characters
RECURSIVE DigitsValue(_)
DigitsValue(ds) ==
    IF ds = <<>> THEN 0
    ELSE 10 * DigitsValue(SubSeq(ds, 1, Len(ds) - 1)) + DigitValue(ds[Len(ds)])

\* a run of n zeros
Zeros(n) == [i \in 1..n |-> "0"]

\* the number of elements of s that satisfy Test
Count(s, Test(_)) == Len(SelectSeq(s, Test))

(***************************************************************************)
(* float(s) for a str s: surrounding whitespace is stripped, then an       *)
(* optional sign and either "nan" or decimal digits (of any script) with   *)
(* at most one point and at least one digit; anything else raises          *)
(* ValueError.  Exponents, underscores and "inf" use characters no input   *)
(* of the model holds.                                                     *)
(***************************************************************************)
\* the float (+/-) digits / 10^x: the zeros that end the digits go into the
\* exponent before the value of the digits is taken
RECURSIVE FloatOfDigits(_, _, _)
FloatOfDigits(neg, digits, x) ==
    IF Len(digits) > 1 /\ DigitValue(digits[Len(digits)]) = 0
    THEN FloatOfDigits(neg, SubSeq(digits, 1, Len(digits) - 1), x - 1)
    ELSE MkFloat(neg, DigitsValue(digits), x)

\* the float of a text without its sign
FloatOfUnsigned(neg, body) ==
    LET digits == SelectSeq(body, IsReDigit)
        dots == Count(body, LAMBDA c : c = ".")
        \* the digits after the point
        fraction ==
            IF dots = 0 THEN 0
            ELSE Len(body) - (CHOOSE i \in 1..Len(body) : body[i] = ".")
    IN  IF body = <<"n", "a", "n">> THEN NaN
        ELSE IF /\ digits # <<>>
                /\ dots <= 1
                /\ Len(digits) + dots = Len(body)
             THEN FloatOfDigits(neg, digits, fraction)
             ELSE Raise("ValueError")

FloatOfStr(s) ==
    LET t == Strip(s)
        signed == t # <<>> /\ Head(t) \in {"-", "+"}
    IN  FloatOfUnsigned(t # <<>> /\ Head(t) = "-", IF signed THEN Tail(t) ELSE t)

\* float(v) for any value
FloatOf(v) ==
    CASE v.t = "str" -> FloatOfStr(v.s)
      [] v.t = "int" -> MkFloat(v.neg, v.m, 0)
      [] v.t = "float" -> v
      [] v.t = "nan" -> v
      [] OTHER -> Raise("TypeError")

(***************************************************************************)
(* str(v): repr of a float is positional for 1e-4 <= |v| < 1e16 and        *)
(* scientific below and above that.                                        *)
(***************************************************************************)
\* repr of the float v, ds the decimal digits of v.m
FloatRepr(v, ds) ==
    LET sign == IF v.neg THEN <<"-">> ELSE <<>>
        n == Len(ds)
    IN  IF v.m # 0 /\ n + 3 < v.x
        THEN \* d[.ddd]e-XX
             LET e == v.x - n + 1
                 es == NatDigits(e)
             IN  sign \o <<ds[1]>>
                  \o (IF n > 1 THEN <<".">> \o SubSeq(ds, 2, n) ELSE <<>>)
                  \o <<"e", "-">> \o (IF e < 10 THEN <<"0">> ELSE <<>>) \o es
        ELSE IF v.m # 0 /\ n - v.x > 16
        THEN \* d[.ddd]e+XX, 17 digits or more before the point
             sign \o <<ds[1]>>
              \o (IF n > 1 THEN <<".">> \o SubSeq(ds, 2, n) ELSE <<>>)
              \o <<"e", "+">> \o NatDigits(n - v.x - 1)
        ELSE IF v.x <= 0 THEN sign \o ds \o Zeros(0 - v.x) \o <<".", "0">>
        ELSE LET padded == IF n <= v.x THEN Zeros(v.x - n + 1) \o ds ELSE ds
                 k == Len(padded) - v.x
             IN  sign \o SubSeq(padded, 1, k) \o <<".">>
                  \o SubSeq(padded, k + 1, Len(padded))

StrOf(v) ==
    CASE v.t = "str" -> v.s
      [] v.t = "None" -> <<"N", "o", "n", "e">>
      [] v.t = "nan" -> <<"n", "a", "n">>
      [] v.t = "int" -> (IF v.neg THEN <<"-">> ELSE <<>>) \o NatDigits(v.m)
      [] v.t = "float" -> FloatRepr(v, NatDigits(v.m))

(***************************************************************************)
(* format(v, ",.{d}f"): the binary double nearest to the decimal m / 10^x  *)
(* is rounded to d places, exactly, ties to even.  A decimal that ends in  *)
(* a 5 right after the d-th place is a tie only when the double holds it   *)
(* exactly (5^x divides m); otherwise the double lies above or below it    *)
(* and decides the direction.                                              *)
(***************************************************************************)
RECURSIVE ModPow(_, _, _)
ModPow(b, e, n) == IF e = 0 THEN 1 % n ELSE (b * ModPow(b, e - 1, n)) % n

\* floor(log2(m / 10^x)) for m > 0
Log2Floor(m, x) ==
    LET RECURSIVE Log2Up(_, _, _)
        Log2Up(n, p, j) == IF 2 * p <= n THEN Log2Up(n, 2 * p, j + 1) ELSE j

        RECURSIVE Log2Down(_, _, _)
        Log2Down(n, p, j) == IF n < p THEN Log2Down(2 * n, p, j + 1) ELSE j
    IN  IF m >= Pow(10, x) THEN Log2Up(m, Pow(10, x), 0) ELSE 0 - Log2Down(m, Pow(10, x), 0)

\* the double nearest to m / 10^x is greater than m / 10^x: with 2^52 <=
\* (m / 10^x) * 2^k < 2^53, the fraction of m * 2^(k-x) / 5^x is above 1/2
DoubleIsAbove(m, x) ==
    LET k == 52 - Log2Floor(m, x)
        n == Pow(5, x)
        rem == ((m % n) * ModPow(2, k - x, n)) % n
    IN  2 * rem > n

\* round(m / 10^x * 10^d) as format does it, for x > d
RoundScaled(m, x, d) ==
    LET unit == Pow(10, x - d)
        q == m \div unit
        r == m % unit
        half == 5 * Pow(10, x - d - 1)
    IN  IF r < half THEN q
        ELSE IF r > half THEN q + 1
        \* the double nearest to m / 10^x holds it exactly: ties to even
        ELSE IF m % Pow(5, x) = 0 THEN (IF q % 2 = 0 THEN q ELSE q + 1)
        ELSE IF DoubleIsAbove(m, x) THEN q + 1
        ELSE q

\* the "," option: a comma before every group of three integer digits
RECURSIVE Grouped(_)
Grouped(ds) ==
    IF Len(ds) <= 3 THEN ds
    ELSE Grouped(SubSeq(ds, 1, Len(ds) - 3)) \o <<",">> \o SubSeq(ds, Len(ds) - 2, Len(ds))

\* format(v, ".{d}f") when comma is FALSE, format(v, ",.{d}f") when TRUE, for a
\* float or an int v
\* the sign, the digits scaled of round(|v| * 10^d) with the point put d
\* places from their end, and the commas
FormatDigits(neg, scaled, d, comma) ==
    LET padded ==
            IF Len(scaled) <= d THEN Zeros(d + 1 - Len(scaled)) \o scaled
            ELSE scaled
        k == Len(padded) - d
        whole == SubSeq(padded, 1, k)
    IN  (IF neg THEN <<"-">> ELSE <<>>)
         \o (IF comma THEN Grouped(whole) ELSE whole)
         \o (IF d = 0 THEN <<>> ELSE <<".">> \o SubSeq(padded, k + 1, Len(padded)))

FormatFixed(v, d, comma) ==
    IF v.t = "nan" THEN <<"n", "a", "n">>
    ELSE FormatDigits(v.neg,
                      IF v.m = 0 THEN <<"0">>
                      ELSE IF Exp10(v) <= d THEN NatDigits(v.m) \o Zeros(d - Exp10(v))
                      ELSE NatDigits(RoundScaled(v.m, Exp10(v), d)),
                      d, comma)

(***************************************************************************)
(* Cell Normalizer (src/app.py).                                           *)
(***************************************************************************)
\* the f-string of a number, d decimal places, "," grouping when comma, then
\* the suffix; the fallback when num is None or the conversion to it raised
FormatOr(num, d, comma, suffix, fallback) ==
    IF num.t \in {"None", "raise"} THEN fallback
    ELSE Str(FormatFixed(num, d, comma) \o suffix)

\* try: return f / except Exception: return None
NoneIfRaised(f) == IF IsRaise(f) THEN None ELSE f

\* mutant of KeepNumeric: the class leaves out "-", so the sign is dropped
KeepNumericUnsigned(s) == SelectSeq(s, LAMBDA c : IsReDigit(c) \/ c = ".")

\* re.sub(r"[^\d\.\-]", '', s)
KeepNumeric(s) == SelectSeq(s, LAMBDA c : IsReDigit(c) \/ c = "." \/ c = "-")

\* value in (None, '') is equality with None or with the empty str
parse_number(value) ==
    IF value = None \/ value = EmptyStr THEN None
    ELSE NoneIfRaised(FloatOfStr(KeepNumeric(RemoveChar(RemoveChar(StrOf(value), ","), " "))))

\* mutant of fmt_money: an unparsable value comes back as "0", the fallback
\* of fmt_int, instead of ''
fmt_money_zero_fallback(value, args) ==
    FormatOr(parse_number(value), IF args = <<>> THEN 2 ELSE args[1], TRUE, <<>>, Str(<<"0">>))

\* fmt_money(value, decimals=2): args is <<>> when decimals is left out and
\* <<d>> when it is given
fmt_money(value, args) ==
    FormatOr(parse_number(value), IF args = <<>> THEN 2 ELSE args[1], TRUE, <<>>, EmptyStr)

\* the prefix of s made of characters that satisfy Test
TakeWhile(s, Test(_)) ==
    LET n == CHOOSE k \in 0..Len(s) :
                 /\ \A i \in 1..k : Test(s[i])
                 /\ k = Len(s) \/ ~Test(s[k + 1])
    IN  SubSeq(s, 1, n)

\* s from its (i+1)-th character on
Drop(s, i) == SubSeq(s, i + 1, Len(s))

\* s.startswith(p)
StartsWith(s, p) == Len(p) <= Len(s) /\ SubSeq(s, 1, Len(p)) = p

\* the first position of character c in s, 0 when there is none
IndexOf(s, c) ==
    IF \E i \in 1..Len(s) : s[i] = c
    THEN CHOOSE i \in 1..Len(s) : s[i] = c /\ \A j \in 1..(i - 1) : s[j] # c
    ELSE 0

Backslash == "\\"
MathbfOpen == <<Backslash, "m", "a", "t", "h", "b", "f", "{">>
RightArrow == <<Backslash, "r", "i", "g", "h", "t", "a", "r", "r", "o", "w">>

\* re.sub(r'\\mathbf\{([^}]*)\}', r'\1', s): matches are found left to right and
\* do not overlap; the wrapper closes at the first "}" after its opening
RECURSIVE SubMathbf(_)
SubMathbf(s) ==
    IF s = <<>> THEN <<>>
    ELSE LET rest == Drop(s, Len(MathbfOpen))
             close == IF StartsWith(s, MathbfOpen) THEN IndexOf(rest, "}") ELSE 0
         IN  IF close > 0
             THEN SubSeq(rest, 1, close - 1) \o SubMathbf(Drop(rest, close))
             ELSE <<Head(s)>> \o SubMathbf(Tail(s))

\* re.sub(r'\\rightarrow', arrow, s)
RECURSIVE SubRightArrow(_)
SubRightArrow(s) ==
    IF s = <<>> THEN <<>>
    ELSE IF StartsWith(s, RightArrow)
         THEN <<"u2192">> \o SubRightArrow(Drop(s, Len(RightArrow)))
         ELSE <<Head(s)>> \o SubRightArrow(Tail(s))

\* mutant of SubDollar: "." matches the line feed too (re.DOTALL), so a span
\* may run over several lines
RECURSIVE SubDollarAcrossLines(_)
SubDollarAcrossLines(s) ==
    IF s = <<>> THEN <<>>
    ELSE LET rest == Tail(s)
             close == IF Head(s) = "$" THEN IndexOf(rest, "$") ELSE 0
         IN  IF close > 0
             THEN SubSeq(rest, 1, close - 1) \o SubDollarAcrossLines(Drop(rest, close))
             ELSE <<Head(s)>> \o SubDollarAcrossLines(rest)

\* re.sub(r'\$(.*?)\$', r'\1', s): "." matches no line feed and the match is the
\* shortest one, so a "$" pairs with the next "$" of its line
RECURSIVE SubDollar(_)
SubDollar(s) ==
    IF s = <<>> THEN <<>>
    ELSE LET rest == Tail(s)
             close == IF Head(s) = "$" THEN IndexOf(rest, "$") ELSE 0
             sameLine == close > 0 /\ \A i \in 1..(close - 1) : rest[i] # "\n"
         IN  IF sameLine
             THEN SubSeq(rest, 1, close - 1) \o SubDollar(Drop(rest, close))
             ELSE <<Head(s)>> \o SubDollar(rest)

clean_latex_math(text) ==
    IF ~IsStr(text) THEN EmptyStr
    ELSE Str(Strip(SubDollar(SubRightArrow(SubMathbf(text.s)))))

\* num * k for a float num and the int 10^e
TimesPow10(num, e) == MkFloat(num.neg, num.m, num.x - e)

\* re.search(r'([\d.]+)\s*([BM]?)', s): the match starts at the first digit or
\* point of s; group 1 is the whole run of digits and points, then all the
\* whitespace, then group 2 is "B" or "M" when one follows and empty otherwise
NumberUnitSearch(s) ==
    LET IsNumChar(c) == IsReDigit(c) \/ c = "."
        IsSpace(c) == c \in Whitespace
        start == IF \E i \in 1..Len(s) : IsNumChar(s[i])
                 THEN CHOOSE i \in 1..Len(s) :
                        IsNumChar(s[i]) /\ \A j \in 1..(i - 1) : ~IsNumChar(s[j])
                 ELSE 0
        from == IF start = 0 THEN <<>> ELSE Drop(s, start - 1)
        number == TakeWhile(from, IsNumChar)
        after == Drop(from, Len(number))
        tail == Drop(after, Len(TakeWhile(after, IsSpace)))
        unit == IF tail # <<>> /\ Head(tail) \in {"B", "M"} THEN <<Head(tail)>> ELSE <<>>
    IN  [matched |-> start > 0, number |-> number, unit |-> unit]

\* the definition of clean_number in effect in app.py (the second one)
clean_number(val) ==
    IF ~IsStr(val) THEN val
    ELSE LET s == Strip(val.s)
             match == NumberUnitSearch(s)
             num == FloatOfStr(match.number)
         IN  IF s = <<>> THEN Str(s)
             ELSE IF ~match.matched THEN Str(s)
             ELSE IF IsRaise(num) THEN num
             ELSE IF match.unit = <<"B">> THEN TimesPow10(num, 9)
             ELSE IF match.unit = <<"M">> THEN TimesPow10(num, 6)
             ELSE IF match.unit = <<"L">> THEN TimesPow10(num, 5)
             ELSE num

\* mutant of fmt_int: the value is parsed with parse_number instead of float()
fmt_int_via_parse_number(val) == FormatOr(parse_number(val), 0, TRUE, <<>>, Str(<<"0">>))

\* fmt_int, local to build_ecom_comparison_context
fmt_int(val) == FormatOr(FloatOf(val), 0, TRUE, <<>>, Str(<<"0">>))

\* mutant of fmt_pct: a value of magnitude at most 1 is taken for a fraction
\* and multiplied by 100
fmt_pct_rescaled(val) ==
    LET f == FloatOf(val)
        isFraction == f.t = "float" /\ (IF f.x >= 0 THEN f.m <= Pow(10, f.x) ELSE f.m = 0)
        shown == IF isFraction THEN MkFloat(f.neg, f.m, f.x - 2) ELSE f
    IN  IF IsRaise(f) THEN Str(<<"u2014">>)
        ELSE Str(FormatFixed(shown, 1, FALSE) \o <<"%">>)

\* fmt_pct, local to build_ecom_comparison_context
fmt_pct(val) == FormatOr(FloatOf(val), 1, FALSE, <<"%">>, Str(<<"u2014">>))

(***************************************************************************)
(* More of str: lower(), "in", replace() and join().                       *)
(***************************************************************************)
UpperLetters == <<"A", "B", "C", "D", "E", "F", "G", "H", "I", "J", "K", "L", "M", "N", "O", "P", "Q", "R", "S", "T", "U", "V", "W", "X", "Y", "Z">>
LowerLetters == <<"a", "b", "c", "d", "e", "f", "g", "h", "i", "j", "k", "l", "m", "n", "o", "p", "q", "r", "s", "t", "u", "v", "w", "x", "y", "z">>

Lower(s) ==
    LET LowerChar(c) ==
            IF \E i \in 1..26 : UpperLetters[i] = c
            THEN LowerLetters[CHOOSE i \in 1..26 : UpperLetters[i] = c]
            ELSE c
    IN  [i \in 1..Len(s) |-> LowerChar(s[i])]

\* sub in s
Contains(s, sub) == \E i \in 0..(Len(s) - Len(sub)) : SubSeq(s, i + 1, i + Len(sub)) = sub

\* s.replace(old, new): the occurrences from the left, not overlapping
RECURSIVE Replace(_, _, _)
Replace(s, old, new) ==
    IF s = <<>> THEN <<>>
    ELSE IF StartsWith(s, old) THEN new \o Replace(Drop(s, Len(old)), old, new)
    ELSE <<Head(s)>> \o Replace(Tail(s), old, new)

\* " ".join(parts)
RECURSIVE JoinSpace(_)
JoinSpace(parts) ==
    IF parts = <<>> THEN <<>>
    ELSE IF Len(parts) = 1 THEN parts[1]
    ELSE parts[1] \o <<" ">> \o JoinSpace(Tail(parts))

\* bool(v): None, '', 0 and 0.0 are false; nan is true
Truthy(v) ==
    CASE v.t = "None" -> FALSE
      [] v.t = "str" -> v.s # <<>>
      [] v.t \in {"int", "float"} -> v.m # 0
      [] OTHER -> TRUE

\* a or b
Or(a, b) == IF Truthy(a) THEN a ELSE b

(***************************************************************************)
(* pandas.  A DataFrame is [columns |-> <<label, ...>>, rows |-> <<row,    *)
(* ...>>]: a label is a Python value (the str of a header cell, or the int *)
(* of a header cell that holds a number) and a row holds one cell value    *)
(* per column; an empty cell is nan.  The labels of one table differ from  *)
(* each other, as read_excel makes them.  A row handed to the code (a      *)
(* Series of iterrows(), a dict of to_dict(orient="records")) is the       *)
(* sequence of its <<label, value>> pairs in column order.                 *)
(***************************************************************************)
DataFrame(columns, rows) == [columns |-> columns, rows |-> rows]

\* pd.DataFrame()
EmptyFrame == DataFrame(<<>>, <<>>)

\* df.empty
Empty(df) == df.columns = <<>> \/ df.rows = <<>>

Record(columns, cells) == [i \in 1..Len(columns) |-> <<columns[i], cells[i]>>]

\* df.iterrows() and df.to_dict(orient="records")
Records(df) == [i \in 1..Len(df.rows) |-> Record(df.columns, df.rows[i])]

\* row.get(key, default)
Get(row, key, default) ==
    LET HasKey == \E i \in 1..Len(row) : row[i][1] = key
    IN  IF HasKey THEN row[CHOOSE i \in 1..Len(row) : row[i][1] = key][2] ELSE default

\* label in df.columns
HasColumn(df, label) == \E i \in 1..Len(df.columns) : df.columns[i] = label

\* df.columns = labels, which raises when the number of labels is not the
\* number of columns
SetColumns(df, labels) ==
    IF Len(labels) # Len(df.columns) THEN Raise("ValueError")
    ELSE DataFrame(labels, df.rows)

\* df.columns.astype(str).str.strip()
StrippedLabels(df) == [i \in 1..Len(df.columns) |-> Str(Strip(StrOf(df.columns[i])))]

\* df[col] = value for a column the table lacks
WithColumn(df, label, value) ==
    DataFrame(Append(df.columns, label), [i \in 1..Len(df.rows) |-> Append(df.rows[i], value)])

\* df.fillna("")
FillNa(df) ==
    DataFrame(df.columns,
              [i \in 1..Len(df.rows) |->
                  [j \in 1..Len(df.columns) |->
                      IF df.rows[i][j] = NaN THEN EmptyStr ELSE df.rows[i][j]]])

\* df[labels] for labels the table has
Columns(df, labels) ==
    LET at(label) == CHOOSE j \in 1..Len(df.columns) : df.columns[j] = label
    IN  DataFrame(labels,
                  [i \in 1..Len(df.rows) |-> [k \in 1..Len(labels) |-> df.rows[i][at(labels[k])]]])

(***************************************************************************)
(* The table source (src/services/google_sheets.py).  workbook is the      *)
(* file strategic_insight.xlsx: whether it exists, whether read_excel can  *)
(* read it, and the table of each of its sheets.                           *)
(***************************************************************************)
\* strategic_insight.xlsx does not exist
WorkbookMissing == [exists |-> FALSE, readable |-> FALSE, sheets |-> <<>>]

\* strategic_insight.xlsx exists and is not a workbook read_excel can read
WorkbookCorrupt == [exists |-> TRUE, readable |-> FALSE, sheets |-> <<>>]

\* mutant of load_excel_cache: the dict loaded once, when the module was
\* imported and no workbook was there, is returned ever after
load_excel_cache_at_import == <<>>

\* _load_excel_cache(): the dict of all sheets, {} without a readable file
load_excel_cache ==
    IF ~workbook.exists THEN <<>>
    ELSE IF ~workbook.readable THEN <<>>
    ELSE workbook.sheets

\* mutant of sheet_to_df: the cache is indexed, cache[sheet_name], so a sheet
\* the workbook lacks raises KeyError
sheet_to_df_indexed(sheet_name) ==
    LET cache == load_excel_cache
    IN  IF sheet_name \in DOMAIN cache THEN cache[sheet_name] ELSE Raise("KeyError")

sheet_to_df(sheet_name) ==
    LET cache == load_excel_cache
    IN  IF sheet_name \in DOMAIN cache THEN cache[sheet_name] ELSE EmptyFrame

get_roadmap == sheet_to_df("roadmap")

\* no request is being answered
NoRequest == [fn |-> "none", args |-> <<>>]

(***************************************************************************)
(* build_ecom_target_context (src/app.py).                                 *)
(***************************************************************************)
\* the header normalization of build_ecom_target_context and cost_per_x: one
\* pass each of replace(NBSP, " "), replace(TAB, " "), replace("  ", " "),
\* then strip()
NormalizedLabel(label) ==
    Str(Strip(Replace(Replace(Replace(StrOf(label), <<"u00A0">>, <<" ">>),
                              <<"\t">>, <<" ">>),
                      <<" ", " ">>, <<" ">>)))

NormalizedLabels(df) == [i \in 1..Len(df.columns) |-> NormalizedLabel(df.columns[i])]

\* the cells of a row that are neither empty nor "nan", as stripped text
InsightParts(cells) ==
    LET kept == SelectSeq(cells, LAMBDA x : LET t == Strip(StrOf(x))
                                            IN  t # <<>> /\ Lower(t) # <<"n", "a", "n">>)
    IN  [i \in 1..Len(kept) |-> Strip(StrOf(kept[i]))]

\* mask: the rows whose first column holds "insight"
InsightMask(df) ==
    {i \in 1..Len(df.rows) :
        Contains(Lower(Strip(StrOf(df.rows[i][1]))), <<"i", "n", "s", "i", "g", "h", "t">>)}

\* df[mask].iloc[-1]: the other columns of the last such row, joined
InsightOfMaskLast(df) ==
    Strip(JoinSpace(InsightParts(Tail(df.rows[CHOOSE i \in InsightMask(df) :
                                                  \A k \in InsightMask(df) : i >= k]))))

\* df[mask].iloc[0]: the other columns of the first such row, joined
InsightOfMask(df) ==
    Strip(JoinSpace(InsightParts(Tail(df.rows[CHOOSE i \in InsightMask(df) :
                                                  \A k \in InsightMask(df) : i <= k]))))

\* the scan for prose from the first row down
TargetInsightFirstProse(df) ==
    LET \* re.search(r"\d{n,}", s)
        HasDigitRun(s, n) ==
            \E i \in 1..(Len(s) - n + 1) : \A j \in i..(i + n - 1) : IsReDigit(s[j])

        \* a row of the scan from the last row up: df.iloc[i].astype(str) leaves no
        \* empty value but the empty str
        ProseOfRow(i) ==
            LET texts == [j \in 1..Len(df.columns) |-> StrOf(df.rows[i][j])]
                kept == SelectSeq(texts, LAMBDA t : t # <<>> /\ Lower(Strip(t)) # <<"n", "a", "n">>)
            IN  JoinSpace([j \in 1..Len(kept) |-> Strip(kept[j])])

        LooksLikeProse(joined) == Len(joined) > 40 /\ ~HasDigitRun(joined, 3)
    IN  LET prose == {i \in 1..Len(df.rows) : LooksLikeProse(ProseOfRow(i))}
        IN  IF InsightMask(df) # {}
            THEN InsightOfMask(df)
            ELSE IF prose # {}
            THEN Strip(ProseOfRow(CHOOSE i \in prose : \A k \in prose : i <= k))
            ELSE <<>>

TargetInsight(df) ==
    LET \* re.search(r"\d{n,}", s)
        HasDigitRun(s, n) ==
            \E i \in 1..(Len(s) - n + 1) : \A j \in i..(i + n - 1) : IsReDigit(s[j])

        \* a row of the scan from the last row up: df.iloc[i].astype(str) leaves no
        \* empty value but the empty str
        ProseOfRow(i) ==
            LET texts == [j \in 1..Len(df.columns) |-> StrOf(df.rows[i][j])]
                kept == SelectSeq(texts, LAMBDA t : t # <<>> /\ Lower(Strip(t)) # <<"n", "a", "n">>)
            IN  JoinSpace([j \in 1..Len(kept) |-> Strip(kept[j])])

        LooksLikeProse(joined) == Len(joined) > 40 /\ ~HasDigitRun(joined, 3)
    IN  LET prose == {i \in 1..Len(df.rows) : LooksLikeProse(ProseOfRow(i))}
        IN  IF InsightMask(df) # {}
            THEN InsightOfMask(df)
            ELSE IF prose # {}
            THEN Strip(ProseOfRow(CHOOSE i \in prose : \A k \in prose : i >= k))
            ELSE <<>>

TargetCell(c, val) ==
    LET NumericFieldWords == {<<"a", "m", "o", "u", "n", "t">>, <<"t", "a", "r", "g", "e", "t">>, <<"s", "a", "l", "e", "s">>, <<"m", "o", "o", "n", "s", "h", "o", "t">>, <<"f", "u", "l", "f", "i", "l", "l", "m", "e", "n", "t">>}

        IsNumericField == \E k \in NumericFieldWords : Contains(Lower(c.s), k)
    IN  IF IsNumericField
        THEN LET num == parse_number(val)
             IN  IF num # None THEN fmt_money(num, <<>>) ELSE EmptyStr
        ELSE IF val # None /\ Strip(StrOf(val)) # <<"n", "a", "n">> THEN val ELSE EmptyStr

\* formatted_rows: every cell of the table under its normalised header
TargetRows(df) ==
    [i \in 1..Len(df.rows) |->
        [j \in 1..Len(df.columns) |-> <<df.columns[j], TargetCell(df.columns[j], df.rows[i][j])>>]]

\* build_ecom_target_context from the table loaded on
TargetOf(loaded) ==
    LET df == IF Empty(loaded) THEN loaded ELSE DataFrame(NormalizedLabels(loaded), loaded.rows)
    IN  [ active_tab |-> "target",
          target_columns |-> IF Empty(df) THEN <<>> ELSE df.columns,
          target_rows |-> IF Empty(df) THEN <<>> ELSE TargetRows(df),
          target_insight |-> Str(IF Empty(df) THEN <<>> ELSE TargetInsight(df)),
          comp_rows |-> <<>>,
          comp_summary |-> <<>>,
          title |-> "E-commerce Performance",
          description |-> "2026 target plan across the funnel." ]

build_ecom_target_context == TargetOf(sheet_to_df("2026 Ecom Target"))

(***************************************************************************)
(* Arithmetic on numbers.  Sums and differences of the decimals are exact; *)
(* a quotient is carried to DivPlaces decimal places, and when the         *)
(* division leaves a remainder one more digit, 1, says that the quotient   *)
(* lies above the digits kept, so that no rounding takes it for a tie.     *)
(***************************************************************************)
\* decimal places a quotient is carried to
DivPlaces == 4

CommonExp(a, b) == IF Exp10(a) >= Exp10(b) THEN Exp10(a) ELSE Exp10(b)

\* v as a count of units of 10^-x, for x >= Exp10(v)
Scaled(v, x) == (IF v.neg THEN -1 ELSE 1) * v.m * Pow(10, x - Exp10(v))

FromScaled(n, x, isInt) ==
    LET m == IF n < 0 THEN -n ELSE n
    IN  IF isInt THEN MkInt(n < 0, m) ELSE MkFloat(n < 0, m, x)

\* a + b and a - b: an int when both are
Add(a, b) ==
    LET x == CommonExp(a, b)
    IN  FromScaled(Scaled(a, x) + Scaled(b, x), x, a.t = "int" /\ b.t = "int")

Sub(a, b) ==
    LET x == CommonExp(a, b)
    IN  FromScaled(Scaled(a, x) - Scaled(b, x), x, a.t = "int" /\ b.t = "int")

\* a < b
Less(a, b) == LET x == CommonExp(a, b) IN Scaled(a, x) < Scaled(b, x)

\* the digits of r / d after the point, r < d: <<their value, the remainder>>
RECURSIVE LongDiv(_, _, _, _)
LongDiv(r, d, places, acc) ==
    IF places = 0 THEN <<acc, r>>
    ELSE LongDiv((r * 10) % d, d, places - 1, acc * 10 + (r * 10) \div d)

\* a / b for b # 0: always a float
Div(a, b) ==
    LET x == CommonExp(a, b)
        n == Scaled(a, x)
        d == Scaled(b, x)
        num == IF n < 0 THEN -n ELSE n
        den == IF d < 0 THEN -d ELSE d
        frac == LongDiv(num % den, den, DivPlaces, 0)
        m == (num \div den) * Pow(10, DivPlaces) + frac[1]
        neg == a.neg # b.neg
    IN  IF frac[2] = 0 THEN MkFloat(neg, m, DivPlaces)
        ELSE MkFloat(neg, m * 10 + 1, DivPlaces + 1)

\* sum(values), from the int 0
RECURSIVE Sum(_)
Sum(values) == IF values = <<>> THEN MkInt(FALSE, 0) ELSE Add(Sum(SubSeq(values, 1, Len(values) - 1)), values[Len(values)])

\* max(rows, key=...) and min(rows, key=...): the first of the greatest
\* (smallest) in the order of the list
FirstMax(rows, key(_)) ==
    rows[CHOOSE i \in 1..Len(rows) :
            /\ \A j \in 1..Len(rows) : ~Less(key(rows[i]), key(rows[j]))
            /\ \A j \in 1..(i - 1) : Less(key(rows[j]), key(rows[i]))]

FirstMin(rows, key(_)) ==
    rows[CHOOSE i \in 1..Len(rows) :
            /\ \A j \in 1..Len(rows) : ~Less(key(rows[j]), key(rows[i]))
            /\ \A j \in 1..(i - 1) : Less(key(rows[i]), key(rows[j]))]

(***************************************************************************)
(* build_ecom_comparison_context (src/app.py).                             *)
(***************************************************************************)
Zero == MkInt(FALSE, 0)

\* parse_number(cell) or 0
NumberOrZero(cell) == Or(parse_number(cell), Zero)

ComparisonEntry(row) ==
    LET \* month, parse_number(cell) or 0 for both years, of a row
        ComparisonValues ==
            [ month |-> Str(Strip(StrOf(Get(row, Str(<<"M", "o", "n", "t", "h", "s">>), EmptyStr)))),
              val_2024 |-> NumberOrZero(Get(row, Str(<<"2", "0", "2", "4">>), None)),
              val_2025 |-> NumberOrZero(Get(row, Str(<<"2", "0", "2", "5">>), None)) ]

        ComparisonDelta(v) == Sub(v.val_2025, v.val_2024)

        ComparisonDeltaPct(v) ==
            IF Truthy(v.val_2024) THEN TimesPow10(Div(ComparisonDelta(v), v.val_2024), 2) ELSE None

        ComparisonEntryOf(v) ==
            ("Months" :> v.month) @@ ("2024" :> v.val_2024) @@ ("2025" :> v.val_2025)
              @@ ("2024_fmt" :> fmt_int(v.val_2024)) @@ ("2025_fmt" :> fmt_int(v.val_2025))
              @@ ("delta" :> ComparisonDelta(v)) @@ ("delta_fmt" :> fmt_int(ComparisonDelta(v)))
              @@ ("delta_pct" :> ComparisonDeltaPct(v))
              @@ ("delta_pct_fmt" :> IF ComparisonDeltaPct(v) # None THEN fmt_pct(ComparisonDeltaPct(v))
                                     ELSE Str(<<"u2014">>))
    IN  ComparisonEntryOf(ComparisonValues)

ComparisonSummary(records) ==
    LET December == {<<"d", "e", "c">>, <<"d", "e", "c", "e", "m", "b", "e", "r">>}

        Value2025(r) == r["2025"]

        \* max_row and min_row of a list of records that is not empty
        ComparisonMaxRow == FirstMax(records, Value2025)

        ComparisonMinRow ==
            LET eligible_min == SelectSeq(records, LAMBDA r : Lower(r["Months"].s) \notin December)
            IN  FirstMin(IF eligible_min # <<>> THEN eligible_min ELSE records, Value2025)

        ComparisonTotals(total_2024, total_2025, count) ==
            [ total_2024 |-> fmt_int(total_2024),
              total_2025 |-> fmt_int(total_2025),
              avg_2024 |-> fmt_int(Div(total_2024, count)),
              avg_2025 |-> fmt_int(Div(total_2025, count)) ]

        ComparisonBestWorst(max_row, min_row) ==
            [ max_month |-> IF max_row # None THEN max_row["Months"] ELSE Str(<<"-">>),
              max_value |-> IF max_row # None THEN fmt_int(max_row["2025"]) ELSE Str(<<"0">>),
              min_month |-> IF min_row # None THEN min_row["Months"] ELSE Str(<<"-">>),
              min_value |-> IF min_row # None THEN fmt_int(min_row["2025"]) ELSE Str(<<"0">>) ]
    IN  ComparisonTotals(Sum([i \in 1..Len(records) |-> records[i]["2024"]]),
                         Sum([i \in 1..Len(records) |-> records[i]["2025"]]),
                         MkInt(FALSE, IF records # <<>> THEN Len(records) ELSE 1))
          @@ ComparisonBestWorst(IF records # <<>> THEN ComparisonMaxRow ELSE None,
                                 IF records # <<>> THEN ComparisonMinRow ELSE None)

\* df = df[keep] for the table that is not empty
ComparisonFrame(df) ==
    LET ComparisonColumns ==
            <<Str(<<"M", "o", "n", "t", "h", "s">>), Str(<<"2", "0", "2", "4">>),
              Str(<<"2", "0", "2", "5">>)>>
    IN  IF ~Empty(df)
        THEN Columns(df, SelectSeq(ComparisonColumns, LAMBDA c : HasColumn(df, c)))
        ELSE df

\* mutant of ComparisonRecords: a row with a side that is not above zero is
\* left out, as generate_standalone.py leaves it out of its totals
ComparisonRecordsBothSides(df) ==
    IF ~Empty(df)
    THEN SelectSeq([i \in 1..Len(df.rows) |-> ComparisonEntry(Record(df.columns, df.rows[i]))],
                   LAMBDA r : Less(Zero, r["2024"]) /\ Less(Zero, r["2025"]))
    ELSE <<>>

ComparisonRecords(df) ==
    IF ~Empty(df)
    THEN [i \in 1..Len(df.rows) |-> ComparisonEntry(Record(df.columns, df.rows[i]))]
    ELSE <<>>

\* mutant of ComparisonContext: the summary is made of the records in
\* reverse order, so that of equal 2025 values the last one is found
ComparisonContextLastFirst(records) ==
    [ active_tab |-> "comparison",
      target_columns |-> <<>>,
      target_rows |-> <<>>,
      target_insight |-> EmptyStr,
      comp_rows |-> records,
      comp_summary |-> ComparisonSummary([i \in 1..Len(records) |-> records[Len(records) + 1 - i]]),
      title |-> "E-commerce Performance",
      description |-> "2024 vs 2025 performance snapshot." ]

ComparisonContext(records) ==
    [ active_tab |-> "comparison",
      target_columns |-> <<>>,
      target_rows |-> <<>>,
      target_insight |-> EmptyStr,
      comp_rows |-> records,
      comp_summary |-> ComparisonSummary(records),
      title |-> "E-commerce Performance",
      description |-> "2024 vs 2025 performance snapshot." ]

ComparisonOf(relabeled) ==
    IF relabeled = Raise("ValueError") THEN relabeled
    ELSE ComparisonContext(ComparisonRecords(ComparisonFrame(relabeled)))

\* df.columns = ... if not df.empty else [], then the rest
build_ecom_comparison_context ==
    ComparisonOf(SetColumns(sheet_to_df("ecom 2024 vs 2025"),
                            IF ~Empty(sheet_to_df("ecom 2024 vs 2025"))
                            THEN StrippedLabels(sheet_to_df("ecom 2024 vs 2025"))
                            ELSE <<>>))

(***************************************************************************)
(* Grouping: a dict in insertion order is the sequence of its <<key,       *)
(* value>> pairs.                                                          *)
(***************************************************************************)
\* groups.setdefault(key, []).append(item)
\* mutant of SetDefaultAppend: a new key is put before the keys there are
SetDefaultAppendFirst(groups, key, item) ==
    IF \E i \in 1..Len(groups) : groups[i][1] = key
    THEN LET i == CHOOSE k \in 1..Len(groups) : groups[k][1] = key
         IN  [groups EXCEPT ![i] = <<key, Append(groups[i][2], item)>>]
    ELSE <<<<key, <<item>>>>>> \o groups

SetDefaultAppend(groups, key, item) ==
    IF \E i \in 1..Len(groups) : groups[i][1] = key
    THEN LET i == CHOOSE k \in 1..Len(groups) : groups[k][1] = key
         IN  [groups EXCEPT ![i] = <<key, Append(groups[i][2], item)>>]
    ELSE Append(groups, <<key, <<item>>>>)

Keys(groups) == [i \in 1..Len(groups) |-> groups[i][1]]

(***************************************************************************)
(* get_strategy_plan_context (src/app.py).                                 *)
(***************************************************************************)
\* for col in required: if col not in df.columns: df[col] = ""
RECURSIVE WithColumns(_, _)
WithColumns(df, labels) ==
    IF labels = <<>> THEN df
    ELSE WithColumns(IF HasColumn(df, Head(labels)) THEN df
                     ELSE WithColumn(df, Head(labels), EmptyStr),
                     Tail(labels))

\* required: the columns the table is given when it lacks them
StrategyColumns ==
    << Str(<<"G", "o", "a", "l">>), Str(<<"S", "t", "r", "a", "t", "e", "g", "y", " ", "P", "i", "l", "l", "a", "r">>), Str(<<"P", "h", "a", "s", "e">>), Str(<<"Q", "u", "a", "r", "t", "e", "r">>),
       Str(<<"A", "c", "t", "i", "o", "n">>), Str(<<"P", "h", "o", "t", "o", "_", "U", "R", "L", " ", "1">>), Str(<<"P", "h", "o", "t", "o", "_", "U", "R", "L", " ", "2">>), Str(<<"P", "h", "o", "t", "o", "_", "U", "R", "L", " ", "3">>) >>

\* entry: the dict appended for a row
StrategyEntry(row, current_goal) ==
    [ goal |-> Str(current_goal),
      phase |-> Get(row, Str(<<"P", "h", "a", "s", "e">>), EmptyStr),
      quarter |-> Get(row, Str(<<"Q", "u", "a", "r", "t", "e", "r">>), EmptyStr),
      action |-> Get(row, Str(<<"A", "c", "t", "i", "o", "n">>), EmptyStr),
      photos |-> SelectSeq(<< Get(row, Str(<<"P", "h", "o", "t", "o", "_", "U", "R", "L", " ", "1">>), EmptyStr),
                              Get(row, Str(<<"P", "h", "o", "t", "o", "_", "U", "R", "L", " ", "2">>), EmptyStr),
                              Get(row, Str(<<"P", "h", "o", "t", "o", "_", "U", "R", "L", " ", "3">>), EmptyStr) >>,
                           LAMBDA url : Truthy(url) /\ Strip(StrOf(url)) # <<>>) ]

\* the loop with the first goal of the table kept for every later row
RECURSIVE StrategyRowsFirstGoalKept(_, _, _, _)
StrategyRowsFirstGoalKept(rows, i, current_goal, pillars) ==
    IF i > Len(rows) THEN <<current_goal, pillars>>
    ELSE LET goal_raw == Strip(StrOf(Get(rows[i], Str(<<"G", "o", "a", "l">>), EmptyStr)))
             goal == IF current_goal # <<>> THEN current_goal ELSE goal_raw
             named == Strip(StrOf(Get(rows[i], Str(<<"S", "t", "r", "a", "t", "e", "g", "y", " ", "P", "i", "l", "l", "a", "r">>), EmptyStr)))
             pillar == IF named # <<>> THEN named ELSE <<"G", "e", "n", "e", "r", "a", "l">>
         IN  StrategyRowsFirstGoalKept(rows, i + 1, goal,
                                       SetDefaultAppend(pillars, Str(pillar), StrategyEntry(rows[i], goal)))

\* the loop over the rows from row i on: <<current_goal, pillars>> at its end
RECURSIVE StrategyRows(_, _, _, _)
StrategyRows(rows, i, current_goal, pillars) ==
    IF i > Len(rows) THEN <<current_goal, pillars>>
    ELSE LET goal_raw == Strip(StrOf(Get(rows[i], Str(<<"G", "o", "a", "l">>), EmptyStr)))
             goal == IF goal_raw # <<>> THEN goal_raw ELSE current_goal
             named == Strip(StrOf(Get(rows[i], Str(<<"S", "t", "r", "a", "t", "e", "g", "y", " ", "P", "i", "l", "l", "a", "r">>), EmptyStr)))
             pillar == IF named # <<>> THEN named ELSE <<"G", "e", "n", "e", "r", "a", "l">>
         IN  StrategyRows(rows, i + 1, goal,
                          SetDefaultAppend(pillars, Str(pillar), StrategyEntry(rows[i], goal)))

\* get_strategy_plan_context from the table loaded on
StrategyPlanOf(loaded) ==
    IF Empty(loaded)
    THEN [goal_text |-> Str(<<"2", "0", "2", "6", " ", "S", "t", "r", "a", "t", "e", "g", "y", " ", "P", "l", "a", "n">>), pillars |-> <<>>, title |-> "2026 Strategy Plan"]
    ELSE LET df == FillNa(WithColumns(DataFrame(StrippedLabels(loaded), loaded.rows),
                                      StrategyColumns))
             done == StrategyRows(Records(df), 1, <<>>, <<>>)
         IN  [ goal_text |-> Str(IF done[1] # <<>> THEN done[1] ELSE <<"2", "0", "2", "6", " ", "S", "t", "r", "a", "t", "e", "g", "y", " ", "P", "l", "a", "n">>),
               pillars |-> done[2],
               title |-> "2026 Strategy Plan" ]

get_strategy_plan_context == StrategyPlanOf(sheet_to_df("2026 Strategy plan"))

(***************************************************************************)
(* get_roadmap_context (src/app.py).                                       *)
(***************************************************************************)
\* s < t for two str
RECURSIVE StrLess(_, _)
StrLess(s, t) ==
    LET \* the characters of the model in the order of their code points
        CodePoints ==
            <<"\t", "\n", "\r", " ", "$", "%", ",", "-", ".">> \o <<"0", "1", "2", "3", "4", "5", "6", "7", "8", "9">> \o <<"?">>
              \o UpperLetters \o <<Backslash, "_">> \o LowerLetters
              \o <<"{", "}", "u00A0", "u0663", "u2014", "u2192">>

        CodePoint(c) == CHOOSE i \in 1..Len(CodePoints) : CodePoints[i] = c
    IN  IF t = <<>> THEN FALSE
        ELSE IF s = <<>> THEN TRUE
        ELSE IF Head(s) = Head(t) THEN StrLess(Tail(s), Tail(t))
        ELSE CodePoint(Head(s)) < CodePoint(Head(t))

\* sorted(keys) for str keys that differ from each other
Sorted(keys) ==
    LET rank(i) == Cardinality({j \in 1..Len(keys) : StrLess(keys[j].s, keys[i].s)})
    IN  [n \in 1..Len(keys) |-> keys[CHOOSE i \in 1..Len(keys) : rank(i) = n - 1]]

\* get_value(row, *keys): for each key in turn the first column whose
\* stripped lower-case label is the key; "" for None and '', else str(value)
RECURSIVE get_value(_, _)
get_value(row, keys) ==
    IF keys = <<>> THEN EmptyStr
    ELSE LET key_lower == Lower(Strip(Head(keys)))
             hits == {i \in 1..Len(row) :
                         Truthy(row[i][1]) /\ Lower(Strip(row[i][1].s)) = key_lower}
         IN  IF hits # {}
             THEN LET value == row[CHOOSE i \in hits : \A k \in hits : i <= k][2]
                  IN  IF value \in {None, EmptyStr} THEN EmptyStr ELSE Str(StrOf(value))
             ELSE get_value(row, Tail(keys))

get_roadmap_context ==
    LET RoadmapItem(row) ==
            [ Activity_ID |-> get_value(row, <<<<"A", "c", "t", "i", "v", "i", "t", "y", "_", "I", "D">>, <<"A", "c", "t", "i", "v", "i", "t", "y", " ", "I", "D">>>>),
              Topic |-> get_value(row, <<<<"K", "e", "y", " ", "T", "o", "p", "i", "c">>, <<"K", "e", "y", "_", "T", "o", "p", "i", "c">>, <<"K", "e", "y", " ", "A", "c", "t", "i", "v", "i", "t", "y">>>>),
              Owner |-> get_value(row, <<<<"O", "w", "n", "e", "r">>>>) ]

        RECURSIVE RoadmapRows(_, _, _)
        RoadmapRows(rows, i, quarters) ==
            IF i > Len(rows) THEN quarters
            ELSE LET q == Or(get_value(rows[i], <<<<"Q", "u", "a", "r", "t", "e", "r">>>>), Str(<<"U", "n", "a", "s", "s", "i", "g", "n", "e", "d">>))
                 IN  RoadmapRows(rows, i + 1, SetDefaultAppend(quarters, q, RoadmapItem(rows[i])))
    IN  LET df == get_roadmap
        IN  IF Empty(df) THEN [quarters |-> <<>>, quarter_order |-> <<>>]
            ELSE IF \E i \in 1..Len(df.columns) : ~IsStr(df.columns[i]) THEN Raise("AttributeError")
            ELSE LET stripped == DataFrame([i \in 1..Len(df.columns) |-> Str(Strip(df.columns[i].s))],
                                           df.rows)
                     quarters == RoadmapRows(Records(stripped), 1, <<>>)
                 IN  [quarters |-> quarters, quarter_order |-> Sorted(Keys(quarters))]

(***************************************************************************)
(* swot_page (src/app.py): the keyword arguments handed to the template.   *)
(***************************************************************************)
swot_page ==
    LET \* row.get("Category") or "": .strip() is then called on it, which only a
        \* str has
        SwotCategory(row) == Or(Get(row, Str(<<"C", "a", "t", "e", "g", "o", "r", "y">>), None), EmptyStr)

        SwotFields(row) ==
            [ point_id |-> Or(Get(row, Str(<<"P", "o", "i", "n", "t", "_", "I", "D">>), None), EmptyStr),
              key_item |-> Or(Or(Get(row, Str(<<"K", "e", "y", "_", "I", "t", "e", "m">>), None), Get(row, Str(<<"K", "e", "y", " ", "I", "t", "e", "m">>), None)),
                              EmptyStr),
              insight_2025 |-> Or(Or(Get(row, Str(<<"2", "0", "2", "5">>), None), Get(row, Str(<<"2", "0", "2", "5", " ", "I", "n", "s", "i", "g", "h", "t">>), None)),
                                  EmptyStr),
              strategy_2026 |-> Or(Or(Get(row, Str(<<"2", "0", "2", "6">>), None), Get(row, Str(<<"2", "0", "2", "6", " ", "S", "t", "r", "a", "t", "e", "g", "y">>), None)),
                                   EmptyStr) ]

        \* the loop over the rows from row i on: <<sections, key_insights>> at its end
        RECURSIVE SwotRows(_, _, _, _)
        SwotRows(rows, i, sections, key_insights) ==
            IF i > Len(rows) THEN <<sections, key_insights>>
            ELSE LET category == Strip(SwotCategory(rows[i]).s)
                     f == SwotFields(rows[i])
                 IN  IF category = <<>> THEN SwotRows(rows, i + 1, sections, key_insights)
                     ELSE IF Lower(category) = <<"k", "e", "y", " ", "i", "n", "s", "i", "g", "h", "t">>
                     THEN SwotRows(rows, i + 1, sections,
                                   Append(key_insights,
                                          [ title |-> f.key_item,
                                            content |-> Or(Or(f.insight_2025, f.strategy_2026), f.point_id) ]))
                     ELSE SwotRows(rows, i + 1,
                                   SetDefaultAppend(sections, Str(category),
                                                    [ id |-> f.point_id,
                                                      title |-> f.key_item,
                                                      details_2025 |-> f.insight_2025,
                                                      details_2026 |-> f.strategy_2026 ]),
                                   key_insights)
    IN  LET rows == Records(sheet_to_df("swot"))
        IN  IF \E i \in 1..Len(rows) : ~IsStr(SwotCategory(rows[i])) THEN Raise("AttributeError")
            ELSE LET done == SwotRows(rows, 1, <<>>, <<>>)
                 IN  [sections |-> done[1], key_insights |-> done[2]]

(***************************************************************************)
(* cost_per_x (src/app.py): the keyword arguments handed to the template.  *)
(* No two headers of a table are renamed to the same canonical name.       *)
(***************************************************************************)
CostPerXColumns ==
    <<Str(<<"C", "o", "s", "t", " ", "p", "e", "r", " ", "X">>), Str(<<"F", "a", "c", "t", "s">>), Str(<<"W", "h", "y", "?">>), Str(<<"W", "h", "a", "t", " ", "t", "o", " ", "I", "m", "p", "r", "o", "v", "e", " ", "M", "o", "r", "e", "?">>)>>

\* rename_map with the test for "facts" before the test for "cost per x"
CostPerXLabelFactsFirst(c) ==
    LET lc == Lower(c.s)
    IN  IF StartsWith(lc, <<"f", "a", "c", "t", "s">>) THEN CostPerXColumns[2]
        ELSE IF Contains(lc, <<"c", "o", "s", "t", " ", "p", "e", "r", " ", "x">>) THEN CostPerXColumns[1]
        ELSE IF StartsWith(lc, <<"w", "h", "y">>) THEN CostPerXColumns[3]
        ELSE IF Contains(lc, <<"i", "m", "p", "r", "o", "v", "e">>) THEN CostPerXColumns[4]
        ELSE c

\* the entry of rename_map for a header, the header itself when it has none
CostPerXLabel(c) ==
    LET lc == Lower(c.s)
    IN  IF Contains(lc, <<"c", "o", "s", "t", " ", "p", "e", "r", " ", "x">>) THEN CostPerXColumns[1]
        ELSE IF StartsWith(lc, <<"f", "a", "c", "t", "s">>) THEN CostPerXColumns[2]
        ELSE IF StartsWith(lc, <<"w", "h", "y">>) THEN CostPerXColumns[3]
        ELSE IF Contains(lc, <<"w", "h", "a", "t", " ", "t", "o", " ", "i", "m", "p", "r", "o", "v", "e">>) \/ Contains(lc, <<"i", "m", "p", "r", "o", "v", "e">>) THEN CostPerXColumns[4]
        ELSE c

cost_per_x ==
    LET \* .fillna("").astype(str).str.replace("\r\n", "\n").str.replace("\r", "\n")
        DisplayText(cell) ==
            Str(Replace(Replace(IF cell = NaN THEN <<>> ELSE StrOf(cell), <<"\r", "\n">>, <<"\n">>),
                        <<"\r">>, <<"\n">>))

        CostPerXRows(df) ==
            LET shown == FillNa(Columns(df, CostPerXColumns))
            IN  [i \in 1..Len(shown.rows) |->
                    [j \in 1..4 |->
                        <<CostPerXColumns[j],
                          IF j = 1 THEN shown.rows[i][j] ELSE DisplayText(shown.rows[i][j])>>]]
    IN  LET loaded == sheet_to_df("Cost per X")
            normalized == NormalizedLabels(loaded)
            renamed == DataFrame([i \in 1..Len(normalized) |-> CostPerXLabel(normalized[i])], loaded.rows)
        IN  [ rows |-> IF Empty(loaded) THEN <<>>
                       ELSE CostPerXRows(WithColumns(renamed, CostPerXColumns)),
              title |-> "Cost per X" ]

(***************************************************************************)
(* okr_page (src/app.py): the keyword arguments handed to the template.    *)
(***************************************************************************)
\* rows whose Years cell, as text, holds the year; 2025 is looked for first
OkrOfYear(rows, year) ==
    SelectSeq(rows, LAMBDA row :
        LET text == Strip(StrOf(Get(row, Str(<<"Y", "e", "a", "r", "s">>), EmptyStr)))
        IN  IF year = <<"2", "0", "2", "5">> THEN Contains(text, <<"2", "0", "2", "5">>)
            ELSE ~Contains(text, <<"2", "0", "2", "5">>) /\ Contains(text, year))

\* row.get("Functional POVs", "Other"): .strip() is then called on it
OkrTeam(row) == Get(row, Str(<<"F", "u", "n", "c", "t", "i", "o", "n", "a", "l", " ", "P", "O", "V", "s">>), Str(<<"O", "t", "h", "e", "r">>))

\* teams[team].append(row) for every row, teams a defaultdict(list)
RECURSIVE OkrTeams(_, _, _)
OkrTeams(rows, i, teams) ==
    IF i > Len(rows) THEN teams
    ELSE OkrTeams(rows, i + 1, SetDefaultAppend(teams, Str(Strip(OkrTeam(rows[i]).s)), rows[i]))

compute_avg(rows) ==
    LET \* the cells of the field that count: float(text without "%") * 100.0, the
        \* cells float() raises on left out
        AverageValues ==
            LET cells == [i \in 1..Len(rows) |-> Get(rows[i], Str(<<"A", "v", "e", "r", "a", "g", "e">>), None)]
                given == SelectSeq(cells, LAMBDA v : v \notin {None, EmptyStr})
                parsed == [i \in 1..Len(given) |-> FloatOfStr(Strip(RemoveChar(StrOf(given[i]), "%")))]
                floats == SelectSeq(parsed, LAMBDA f : ~IsRaise(f))
            IN  [i \in 1..Len(floats) |-> IF floats[i] = NaN THEN NaN ELSE TimesPow10(floats[i], 2)]

        \* round(v, 1)
        Round1(x) == FloatOfStr(FormatFixed(x, 1, FALSE))
    IN  LET values == AverageValues
        IN  IF values = <<>> THEN None
            ELSE IF \E i \in 1..Len(values) : values[i] = NaN THEN NaN
            ELSE Round1(Div(Sum(values), MkInt(FALSE, Len(values))))

\* obj_map[obj][year].append(item), obj_map[obj] made on the first item of
\* obj; a nan is a key of its own each time
ObjMapAdd(obj_map, obj, year, item) ==
    LET fresh == [objective |-> obj, items_2025 |-> <<>>, items_2026 |-> <<>>]
        i == IF obj # NaN /\ \E k \in 1..Len(obj_map) : obj_map[k].objective = obj
             THEN CHOOSE k \in 1..Len(obj_map) : obj_map[k].objective = obj
             ELSE Len(obj_map) + 1
        old == IF i <= Len(obj_map) THEN obj_map[i] ELSE fresh
        new == IF year = 2025 THEN [old EXCEPT !.items_2025 = Append(@, item)]
               ELSE [old EXCEPT !.items_2026 = Append(@, item)]
    IN  IF i <= Len(obj_map) THEN [obj_map EXCEPT ![i] = new] ELSE Append(obj_map, new)

RECURSIVE ObjMap(_, _, _, _)
ObjMap(items, i, year, obj_map) ==
    IF i > Len(items) THEN obj_map
    ELSE ObjMap(items, i + 1, year,
                ObjMapAdd(obj_map, Get(items[i], Str(<<"O", "b", "j", "e", "c", "t", "i", "v", "e">>), Str(<<"N", "o", " ", "O", "b", "j", "e", "c", "t", "i", "v", "e">>)),
                          year, items[i]))

OkrComparison(teams_2025, teams_2026, team) ==
    LET \* teams.get(team, [])
        TeamItems(teams, key) ==
            IF \E i \in 1..Len(teams) : teams[i][1] = key
            THEN teams[CHOOSE i \in 1..Len(teams) : teams[i][1] = key][2]
            ELSE <<>>
    IN  LET items_2025 == TeamItems(teams_2025, team)
            items_2026 == TeamItems(teams_2026, team)
        IN  [ team |-> team,
              objectives |-> ObjMap(items_2026, 1, 2026, ObjMap(items_2025, 1, 2025, <<>>)),
              avg_2025 |-> compute_avg(items_2025),
              avg_2026 |-> compute_avg(items_2026) ]

OkrContext(teams_2025, teams_2026, all_teams) ==
    [ comparison |-> [i \in 1..Len(all_teams) |->
                         OkrComparison(teams_2025, teams_2026, all_teams[i])],
      title |-> "OKR Dashboard: 2025 vs 2026" ]

OkrGrouped(teams_2025, teams_2026) ==
    LET \* the keys of both dicts, each once
        UnionKeys(a, b) ==
            Keys(a) \o SelectSeq(Keys(b), LAMBDA k : \A i \in 1..Len(a) : a[i][1] # k)
    IN  OkrContext(teams_2025, teams_2026, Sorted(UnionKeys(teams_2025, teams_2026)))

OkrOfRows(okr_2025, okr_2026) ==
    IF \E i \in 1..Len(okr_2025) : ~IsStr(OkrTeam(okr_2025[i])) THEN Raise("AttributeError")
    ELSE IF \E i \in 1..Len(okr_2026) : ~IsStr(OkrTeam(okr_2026[i])) THEN Raise("AttributeError")
    ELSE OkrGrouped(OkrTeams(okr_2025, 1, <<>>), OkrTeams(okr_2026, 1, <<>>))

OkrSplit(rows) == OkrOfRows(OkrOfYear(rows, <<"2", "0", "2", "5">>), OkrOfYear(rows, <<"2", "0", "2", "6">>))

\* rows = df.to_dict(orient="records") if not df.empty else [], then the rest
okr_page ==
    OkrSplit(IF ~Empty(sheet_to_df("okr")) THEN Records(sheet_to_df("okr")) ELSE <<>>)

(***************************************************************************)
(* bob_page (src/app.py): the keyword arguments handed to the template.    *)
(* read_local_excel_sheet, format_number, format_percent and               *)
(* parse_review_text are called and defined nowhere in src/; the first     *)
(* three follow the specification (table source contract, formatInt,       *)
(* formatPercent).  Nothing says what parse_review_text does, so the       *)
(* BOB_review sheets of the model have no rows.                            *)
(***************************************************************************)
\* table source contract: the table of the sheet, an empty table when the
\* sheet is unknown or the workbook unavailable
read_local_excel_sheet(sheet_name) == sheet_to_df(sheet_name)

\* formatInt: parse, thousands separators, no decimals; "0" when unparsable
format_number(value) == FormatOr(parse_number(value), 0, TRUE, <<>>, Str(<<"0">>))

\* abs(v) <= 1
AbsAtMostOne(v) ==
    LET Abs == IF v.t = "int" THEN MkInt(FALSE, v.m) ELSE MkFloat(FALSE, v.m, v.x)
    IN  ~Less(MkInt(FALSE, 1), Abs)

\* formatPercent: parse, times 100 when the magnitude is at most 1, one
\* decimal and "%"; the em dash on null
format_percent(value) ==
    LET num == parse_number(value)
    IN  IF num = None THEN Str(<<"u2014">>)
        ELSE Str(FormatFixed(IF AbsAtMostOne(num) THEN TimesPow10(num, 2) ELSE num, 1, FALSE)
                 \o <<"%">>)

\* normalize_columns(df)
normalize_columns(df) == IF Empty(df) THEN df ELSE DataFrame(StrippedLabels(df), df.rows)

\* bob_column_map: <<key, canonical name>>
bob_column_map ==
    << <<<<"m", "o", "n", "t", "h", "s">>, <<"M", "o", "n", "t", "h", "s">>>>, <<<<"m", "o", "n", "t", "h">>, <<"M", "o", "n", "t", "h", "s">>>>,
       <<<<"b", "o", "b", " ", "o", "r", "d", "e", "r">>, <<"B", "O", "B", " ", "O", "r", "d", "e", "r">>>>, <<<<"b", "o", "b">>, <<"B", "O", "B", " ", "O", "r", "d", "e", "r">>>>,
       <<<<"b", "o", "b", "o", "r", "d", "e", "r">>, <<"B", "O", "B", " ", "O", "r", "d", "e", "r">>>>,
       <<<<"s", "e", "l", "f", " ", "o", "r", "d", "e", "r">>, <<"S", "e", "l", "f", " ", "O", "r", "d", "e", "r">>>>, <<<<"s", "e", "l", "f">>, <<"S", "e", "l", "f", " ", "O", "r", "d", "e", "r">>>>,
       <<<<"g", "r", "a", "n", "d", " ", "t", "o", "t", "a", "l">>, <<"G", "r", "a", "n", "d", " ", "T", "o", "t", "a", "l">>>>, <<<<"t", "o", "t", "a", "l">>, <<"G", "r", "a", "n", "d", " ", "T", "o", "t", "a", "l">>>>,
       <<<<"c", "s", "%">>, <<"C", "S", "%">>>>, <<<<"c", "s", " ", "%">>, <<"C", "S", "%">>>>, <<<<"c", "s", " ", "p", "e", "r", "c", "e", "n", "t", "a", "g", "e">>, <<"C", "S", "%">>>> >>

\* the best month with `>=` for `>`: of equal totals the last is kept, and a
\* total of 0 is enough
RECURSIVE BestMonthLastOfEqual(_, _)
BestMonthLastOfEqual(values, i) ==
    IF i = 0 THEN [label |-> Str(<<"-">>), value |-> Zero]
    ELSE LET before == BestMonthLastOfEqual(values, i - 1)
         IN  IF ~Less(values[i].grand_val, before.value)
             THEN [label |-> values[i].month, value |-> values[i].grand_val]
             ELSE before

\* the best month after the rows up to row i
RECURSIVE BestMonth(_, _)
BestMonth(values, i) ==
    IF i = 0 THEN [label |-> Str(<<"-">>), value |-> Zero]
    ELSE LET before == BestMonth(values, i - 1)
         IN  IF Less(before.value, values[i].grand_val)
             THEN [label |-> values[i].month, value |-> values[i].grand_val]
             ELSE before

review_sections ==
    << [key |-> "worked", label |-> "What Worked?"],
       [key |-> "scale", label |-> "What needs to scale?"],
       [key |-> "not_work", label |-> "What did not work?"],
       [key |-> "lesson", label |-> "What is the lesson learned?"],
       [key |-> "next_goal", label |-> "What is the next goal for BOB?"] >>

\* the renaming of the headers by bob_column_map
BobRenamed(df) ==
    LET \* the entry of rename_map for a header, the header itself when it has none
        BobLabel(col) ==
            LET key == Lower(Strip(col.s))
            IN  IF \E i \in 1..Len(bob_column_map) : bob_column_map[i][1] = key
                THEN Str(bob_column_map[CHOOSE i \in 1..Len(bob_column_map) : bob_column_map[i][1] = key][2])
                ELSE col
    IN  IF Empty(df) THEN df
        ELSE DataFrame([i \in 1..Len(df.columns) |-> BobLabel(df.columns[i])], df.rows)

BobSummary(values, shares, best_month) ==
    [ total_bob |-> format_number(Sum([i \in 1..Len(values) |-> values[i].bob_val])),
      total_self |-> format_number(Sum([i \in 1..Len(values) |-> values[i].self_val])),
      total_grand |-> format_number(Sum([i \in 1..Len(values) |-> values[i].grand_val])),
      avg_cs |-> format_percent(IF shares # <<>>
                                THEN Div(Sum(shares), MkInt(FALSE, Len(shares)))
                                ELSE None),
      best_month |-> best_month.label,
      best_month_value |-> format_number(best_month.value) ]

BobChart(values) ==
    LET \* the cs point of the chart and the cs share of the totals
        ChartCs(cs_val) ==
            IF cs_val # None /\ AbsAtMostOne(cs_val) THEN TimesPow10(cs_val, 2) ELSE Or(cs_val, Zero)
    IN  [ months |-> [i \in 1..Len(values) |-> values[i].month],
          bob |-> [i \in 1..Len(values) |-> values[i].bob_val],
          self |-> [i \in 1..Len(values) |-> values[i].self_val],
          cs |-> [i \in 1..Len(values) |-> ChartCs(values[i].cs_val)] ]

\* the cs shares of the totals: the cs values that parsed
BobShares(values) ==
    LET TotalCs(cs_val) ==
            IF AbsAtMostOne(cs_val) THEN cs_val ELSE Div(cs_val, MkInt(FALSE, 100))
    IN  LET cs == SelectSeq([i \in 1..Len(values) |-> values[i].cs_val], LAMBDA c : c # None)
        IN  [i \in 1..Len(cs) |-> TotalCs(cs[i])]

BobContext(values, review_df) ==
    LET BobRow(v) ==
            ("Months" :> v.month) @@ ("BOB Order" :> format_number(v.bob_val))
              @@ ("Self Order" :> format_number(v.self_val))
              @@ ("Grand Total" :> format_number(v.grand_val))
              @@ ("CS%" :> format_percent(v.cs_val))
    IN  [ rows |-> [i \in 1..Len(values) |-> BobRow(values[i])],
          \* parse_review_text is not modelled
          reviews |-> IF Empty(review_df) THEN <<>> ELSE [t |-> "parse_review_text"],
          review_sections |-> review_sections,
          summary |-> BobSummary(values, BobShares(values), BestMonth(values, Len(values))),
          chart_data |-> BobChart(values),
          title |-> "BOB Performance",
          description |-> "Monthly BOB volume split with qualitative learnings" ]

\* the values of the rows of the BOB table, none for an empty table
BobTableValues(bob_df) ==
    LET BobValues(row) ==
            [ month |-> Str(Strip(StrOf(Get(row, Str(<<"M", "o", "n", "t", "h", "s">>), EmptyStr)))),
              bob_val |-> NumberOrZero(Get(row, Str(<<"B", "O", "B", " ", "O", "r", "d", "e", "r">>), None)),
              self_val |-> NumberOrZero(Get(row, Str(<<"S", "e", "l", "f", " ", "O", "r", "d", "e", "r">>), None)),
              grand_val |-> NumberOrZero(Get(row, Str(<<"G", "r", "a", "n", "d", " ", "T", "o", "t", "a", "l">>), None)),
              cs_val |-> parse_number(Get(row, Str(<<"C", "S", "%">>), None)) ]
    IN  IF Empty(bob_df) THEN <<>>
        ELSE [i \in 1..Len(bob_df.rows) |-> BobValues(Record(bob_df.columns, bob_df.rows[i]))]

bob_page ==
    BobContext(BobTableValues(BobRenamed(normalize_columns(read_local_excel_sheet("BOB")))),
               normalize_columns(read_local_excel_sheet("BOB_review")))

(***************************************************************************)
(* generate_standalone.py, run as a script: its parse_number and fmt_money *)
(* are those of src/app.py line for line (`re` is imported by the main     *)
(* block before generate_standalone_html is called).                       *)
(***************************************************************************)
\* load_excel_data(file_path): the dict of all sheets; pd.ExcelFile raises
\* without a file it can read
load_excel_data ==
    IF ~workbook.exists THEN Raise("FileNotFoundError")
    ELSE IF ~workbook.readable THEN Raise("ValueError")
    ELSE workbook.sheets

\* the dict appended to comp_rows for a row whose Months is not missing
StandaloneEntry(row, val_2024, val_2025) ==
    ("Months" :> Get(row, Str(<<"M", "o", "n", "t", "h", "s">>), None))
      @@ ("2024" :> val_2024) @@ ("2025" :> val_2025)
      @@ ("2024_fmt" :> IF Truthy(val_2024) THEN fmt_money(val_2024, <<0>>) ELSE Str(<<"u2014">>))
      @@ ("2025_fmt" :> IF Truthy(val_2025) THEN fmt_money(val_2025, <<0>>) ELSE Str(<<"u2014">>))
      @@ ("delta" :> IF Truthy(val_2024) THEN Sub(val_2025, val_2024) ELSE Zero)
      @@ ("delta_pct" :> IF Truthy(val_2024)
                         THEN TimesPow10(Div(Sub(val_2025, val_2024), val_2024), 2)
                         ELSE Zero)
      @@ ("delta_pct_fmt" :> IF ~Truthy(val_2024) \/ ~Truthy(val_2025) THEN Str(<<"u2014">>)
                             ELSE Str(FormatFixed(TimesPow10(Div(Sub(val_2025, val_2024), val_2024), 2),
                                                  1, TRUE) \o <<"%">>))

\* comp_rows: the rows of the table in order, a row without Months skipped
StandaloneRows(df) ==
    LET kept == SelectSeq(Records(df),
                          LAMBDA row : Get(row, Str(<<"M", "o", "n", "t", "h", "s">>), NaN) # NaN)
    IN  [i \in 1..Len(kept) |->
            StandaloneEntry(kept[i],
                            NumberOrZero(Get(kept[i], Str(<<"2", "0", "2", "4">>), Zero)),
                            NumberOrZero(Get(kept[i], Str(<<"2", "0", "2", "5">>), Zero)))]

\* "—" unless the number is above zero
MoneyAboveZero(value) == IF Less(Zero, value) THEN fmt_money(value, <<0>>) ELSE Str(<<"u2014">>)

\* comp_summary: the totals are those of the rows added to them, the
\* averages are over the count of these rows
StandaloneSummary(comp_rows, added) ==
    LET Value2025(r) == r["2025"]
    IN  [ total_2024 |-> MoneyAboveZero(Sum([i \in 1..Len(added) |-> added[i]["2024"]])),
          total_2025 |-> MoneyAboveZero(Sum([i \in 1..Len(added) |-> added[i]["2025"]])),
          avg_2024 |-> MoneyAboveZero(IF added # <<>>
                                      THEN Div(Sum([i \in 1..Len(added) |-> added[i]["2024"]]),
                                               MkInt(FALSE, Len(added)))
                                      ELSE Zero),
          avg_2025 |-> MoneyAboveZero(IF added # <<>>
                                      THEN Div(Sum([i \in 1..Len(added) |-> added[i]["2025"]]),
                                               MkInt(FALSE, Len(added)))
                                      ELSE Zero),
          max_month |-> IF comp_rows # <<>> THEN FirstMax(comp_rows, Value2025)["Months"]
                        ELSE Str(<<"u2014">>),
          max_value |-> IF comp_rows # <<>>
                        THEN fmt_money(FirstMax(comp_rows, Value2025)["2025"], <<0>>)
                        ELSE Str(<<"u2014">>),
          min_month |-> IF comp_rows # <<>> THEN FirstMin(comp_rows, Value2025)["Months"]
                        ELSE Str(<<"u2014">>),
          min_value |-> IF comp_rows # <<>>
                        THEN fmt_money(FirstMin(comp_rows, Value2025)["2025"], <<0>>)
                        ELSE Str(<<"u2014">>) ]

\* generate_standalone.build_ecom_comparison_context(sheets)
standalone_build_ecom_comparison_context(sheets) ==
    IF "ecom 2024 vs 2025" \notin DOMAIN sheets \/ Empty(sheets["ecom 2024 vs 2025"])
    THEN [active_tab |-> "comparison", comp_rows |-> <<>>, comp_summary |-> <<>>]
    ELSE LET comp_rows ==
                 StandaloneRows(DataFrame(StrippedLabels(sheets["ecom 2024 vs 2025"]),
                                          sheets["ecom 2024 vs 2025"].rows))
         IN  [ active_tab |-> "comparison",
               comp_rows |-> comp_rows,
               comp_summary |->
                   StandaloneSummary(comp_rows,
                                     SelectSeq(comp_rows,
                                               LAMBDA r : Less(Zero, r["2024"]) /\ Less(Zero, r["2025"]))) ]

\* generate_standalone.build_ecom_target_context(sheets): the dict it returns;
\* the insight is that of the marked row, or empty
standalone_build_ecom_target_context(sheets) ==
    IF "2026 Ecom Target" \notin DOMAIN sheets \/ Empty(sheets["2026 Ecom Target"])
    THEN [ active_tab |-> "target", target_columns |-> <<>>, target_rows |-> <<>>,
           target_insight |-> EmptyStr ]
    ELSE LET df == DataFrame(NormalizedLabels(sheets["2026 Ecom Target"]),
                             sheets["2026 Ecom Target"].rows)
         IN  [ active_tab |-> "target",
               target_columns |-> df.columns,
               target_rows |-> TargetRows(df),
               target_insight |-> Str(IF InsightMask(df) # {} THEN InsightOfMask(df) ELSE <<>>) ]

\* `sheets` when that call has returned: df is the table the dict holds, and
\* `df.columns = ...` assigns its headers
SheetsAfterTarget(sheets) ==
    IF "2026 Ecom Target" \notin DOMAIN sheets \/ Empty(sheets["2026 Ecom Target"])
    THEN sheets
    ELSE [sheets EXCEPT !["2026 Ecom Target"] = DataFrame(NormalizedLabels(@), @.rows)]

\* row.get(key, '').strip(): a cell that is no str has no strip
StrippedCell(row, key) ==
    LET cell == Get(row, Str(key), EmptyStr)
    IN  IF IsStr(cell) THEN Str(Strip(cell.s)) ELSE Raise("AttributeError")

\* the loop of the script's get_roadmap_context over the rows from row i on:
\* a row without a quarter is passed over; the result is the error raised, or
\* the dict
RECURSIVE StandaloneQuarters(_, _, _)
StandaloneQuarters(rows, i, quarters) ==
    IF i > Len(rows) THEN [error |-> None, quarters |-> quarters]
    ELSE LET quarter == StrippedCell(rows[i], <<"Q", "u", "a", "r", "t", "e", "r">>)
             entry == [ Activity_ID |-> StrippedCell(rows[i], <<"A", "c", "t", "i", "v", "i", "t", "y", "_", "I", "D">>),
                        Topic |-> StrippedCell(rows[i], <<"T", "o", "p", "i", "c">>),
                        Owner |-> StrippedCell(rows[i], <<"O", "w", "n", "e", "r">>) ]
         IN  IF IsRaise(quarter) THEN [error |-> quarter, quarters |-> quarters]
             ELSE IF ~Truthy(quarter) THEN StandaloneQuarters(rows, i + 1, quarters)
             ELSE IF \E field \in {entry.Activity_ID, entry.Topic, entry.Owner} : IsRaise(field)
             THEN [error |-> Raise("AttributeError"), quarters |-> quarters]
             ELSE StandaloneQuarters(rows, i + 1, SetDefaultAppend(quarters, quarter, entry))

\* generate_standalone.get_roadmap_context(sheets)
standalone_get_roadmap_context(sheets) ==
    IF "roadmap" \notin DOMAIN sheets \/ Empty(sheets["roadmap"])
    THEN [quarter_order |-> <<>>, quarters |-> <<>>]
    ELSE LET grouped ==
                 StandaloneQuarters(Records(DataFrame(StrippedLabels(sheets["roadmap"]),
                                                      sheets["roadmap"].rows)),
                                    1, <<>>)
         IN  IF grouped.error # None THEN grouped.error
             ELSE [quarter_order |-> Sorted(Keys(grouped.quarters)), quarters |-> grouped.quarters]

\* `sheets` when that call has returned or raised: the headers of the table
\* are assigned before the rows are read
SheetsAfterRoadmap(sheets) ==
    IF "roadmap" \notin DOMAIN sheets \/ Empty(sheets["roadmap"])
    THEN sheets
    ELSE [sheets EXCEPT !["roadmap"] = DataFrame(StrippedLabels(@), @.rows)]

(***************************************************************************)
(* Cell Normalizer: the raw cell values the functions are applied to.      *)
(***************************************************************************)
RECURSIVE Flatten(_)
Flatten(ss) == IF ss = <<>> THEN <<>> ELSE Head(ss) \o Flatten(Tail(ss))

RawCells ==
    LET \* all sequences over S of length at most n
        SeqsUpTo(S, n) == UNION {[1..k -> S] : k \in 0..n}

        CellAlphabet == {"1", "5", ".", "-", ",", " ", "a", "B", "u0663"}

        \* the cell texts the documentation of the functions and the specification name
        SampleTexts ==
            { <<"1", ",", "0", "0", "0">>,
              <<"1", ".", "2", ".", "3">>,
              <<"1", "-", "2">>,
              <<"n", "a", "n">>,
              <<"3", ".", "7", " ", "B">>,
              <<"1", "8", "0", " ", "L">>,
              <<"2", "M">>,
              <<"1", "5", ",", "7", "5", "0">>,
              <<"0", ".", "0", "4", "5">>,
              <<"$", "1", "7", Backslash, "%", "$">>,
              MathbfOpen \o <<"5", ",", "2", "5", "0", "}">>,
              <<"A", " ">> \o RightArrow \o <<" ", "B">> }

        MarkupFragments ==
            { MathbfOpen, <<"}">>, RightArrow, <<"$">>, <<Backslash, "%">>, <<"A">>, <<" ">>, <<"\n">> }

        \* cells that pandas hands over as numbers, and the missing cell
        SampleNumbers ==
            { MkInt(FALSE, 0), MkInt(FALSE, 1000), MkInt(TRUE, 3),
              MkFloat(FALSE, 12345, 1), MkFloat(FALSE, 5, 1), MkFloat(TRUE, 25, 1),
              MkFloat(FALSE, 17, 2), MkFloat(TRUE, 0, 0), MkFloat(FALSE, 1, 5) }
    IN  {Str(s) : s \in SeqsUpTo(CellAlphabet, MaxLen) \cup SampleTexts}
          \cup {Str(Flatten(fs)) : fs \in SeqsUpTo(MarkupFragments, MaxFragments)}
          \cup SampleNumbers \cup {None, NaN}

(***************************************************************************)
(* Cell Normalizer: one call of one function on one raw cell value.        *)
(***************************************************************************)
InitCell ==
    /\ raw \in RawCells
    /\ decimals = <<>>
    /\ fn = "none"
    /\ out = None
    /\ standalone_sheets = None
    /\ workbook = WorkbookMissing
    /\ req = NoRequest
    /\ ctx = None

Call(name, result) ==
    /\ fn = "none"
    /\ fn' = name
    /\ out' = result
    /\ UNCHANGED <<raw, workbook, req, ctx, standalone_sheets>>

CallParseNumber == Call("parse_number", parse_number(raw)) /\ UNCHANGED decimals

CallFmtMoney ==
    \E args \in {<<>>} \cup {<<d>> : d \in 0..MaxDecimals} : Call("fmt_money", fmt_money(raw, args)) /\ decimals' = args

CallCleanLatexMath == Call("clean_latex_math", clean_latex_math(raw)) /\ UNCHANGED decimals

CallCleanNumber == Call("clean_number", clean_number(raw)) /\ UNCHANGED decimals

CallFmtInt == Call("fmt_int", fmt_int(raw)) /\ UNCHANGED decimals

CallFmtPct == Call("fmt_pct", fmt_pct(raw)) /\ UNCHANGED decimals

NextCell ==
    \/ CallParseNumber
    \/ CallFmtMoney
    \/ CallCleanLatexMath
    \/ CallCleanNumber
    \/ CallFmtInt
    \/ CallFmtPct

SpecCell == InitCell /\ [][NextCell]_vars

(***************************************************************************)
(* Cell Normalizer: a numeric text with thousands separators is parsed,    *)
(* the number is formatted by fmt_money and the text it gives is parsed    *)
(* again.                                                                  *)
(***************************************************************************)
\* numeric texts with thousands separators: a sign or none, groups of digits
\* and a fraction or none; the longest is ten million billions
GroupedNumerals ==
    LET Signs == {<<>>, <<"-">>}
        Wholes == { <<"1", ",", "0", "0", "0">>, <<"1", "5", ",", "7", "5", "0">>,
                    <<"1", "2", ",", "3", "4", "5">>, <<"9", "9", "9", ",", "9", "9", "9">> }
        Fractions == { <<>>, <<".", "5">>, <<".", "2", "5">>, <<".", "0", "0", "5">>,
                       <<".", "1", "2", "5">>, <<".", "9", "9", "5">> }
        Long == { <<"1", ",", "2", "3", "4", ",", "5", "6", "7">>,
                  <<"1", "0", ",", "0", "0", "0", ",", "0", "0", "0", ",", "0", "0", "0", ",",
                    "0", "0", "0", ",", "0", "0", "0">> }
    IN  {s \o w \o f : s \in Signs, w \in Wholes, f \in Fractions}
          \cup {s \o w : s \in Signs, w \in Long}

InitRoundTrip ==
    /\ raw \in {Str(s) : s \in GroupedNumerals}
    /\ decimals = <<>>
    /\ fn = "none"
    /\ out = None
    /\ standalone_sheets = None
    /\ workbook = WorkbookMissing
    /\ req = NoRequest
    /\ ctx = None

\* parse_number(fmt_money(parse_number(raw), decimals))
CallRoundTrip ==
    \E args \in {<<>>} \cup {<<d>> : d \in 0..MaxDecimals} :
        /\ Call("round_trip", parse_number(fmt_money(parse_number(raw), args)))
        /\ decimals' = args

NextRoundTrip == CallRoundTrip \/ CallParseNumber

SpecRoundTrip == InitRoundTrip /\ [][NextRoundTrip]_vars

(***************************************************************************)
(* Reports: the sheets of the workbook and the tables they may hold.  A    *)
(* sheet is empty (no header row), or holds its header row and, below it,  *)
(* rows out of the sample rows of the sheet.  A number cell is a float,    *)
(* as read_excel makes the cells of a column that has an empty cell; the   *)
(* Years of the okr sheet, never empty, are ints.                          *)
(***************************************************************************)
\* most sheets in the workbook
MaxSheets == 1
\* most rows below the header row of a sheet
MaxRows == 1

SheetNames ==
    { "2026 Ecom Target", "ecom 2024 vs 2025", "2026 Strategy plan", "roadmap", "swot",
      "Cost per X", "okr", "BOB", "BOB_review" }

SheetHeader(name) ==
    CASE name = "2026 Ecom Target" -> <<Str(<<"F", "u", "n", "n", "e", "l">>), Str(<<"T", "a", "r", "g", "e", "t", " ", "A", "m", "o", "u", "n", "t">>)>>
      [] name = "ecom 2024 vs 2025" -> <<Str(<<"M", "o", "n", "t", "h", "s">>), MkInt(FALSE, 2024), MkInt(FALSE, 2025)>>
      [] name = "2026 Strategy plan" -> <<Str(<<"G", "o", "a", "l">>), Str(<<"S", "t", "r", "a", "t", "e", "g", "y", " ", "P", "i", "l", "l", "a", "r">>), Str(<<"A", "c", "t", "i", "o", "n">>)>>
      [] name = "roadmap" -> <<Str(<<"Q", "u", "a", "r", "t", "e", "r">>), Str(<<"O", "w", "n", "e", "r">>)>>
      [] name = "swot" -> <<Str(<<"C", "a", "t", "e", "g", "o", "r", "y">>), Str(<<"K", "e", "y", "_", "I", "t", "e", "m">>)>>
      [] name = "Cost per X" -> <<Str(<<"C", "o", "s", "t", " ", "p", "e", "r", " ", "X">>), Str(<<"F", "a", "c", "t", "s">>)>>
      [] name = "okr" -> <<Str(<<"Y", "e", "a", "r", "s">>), Str(<<"F", "u", "n", "c", "t", "i", "o", "n", "a", "l", " ", "P", "O", "V", "s">>), Str(<<"A", "v", "e", "r", "a", "g", "e">>)>>
      [] name = "BOB" -> <<Str(<<"M", "o", "n", "t", "h", "s">>), Str(<<"B", "O", "B", " ", "O", "r", "d", "e", "r">>), Str(<<"G", "r", "a", "n", "d", " ", "T", "o", "t", "a", "l">>), Str(<<"C", "S", "%">>)>>
      [] name = "BOB_review" -> <<Str(<<"W", "h", "a", "t", " ", "w", "o", "r", "k", "e", "d", "?">>)>>

SheetRows(name) ==
    LET \* a float cell holding a whole number, and one holding hundredths
        Whole(n) == MkFloat(FALSE, n, 0)

        Hundredths(n) == MkFloat(FALSE, n, 2)
    IN  CASE name = "2026 Ecom Target" ->
                { <<Str(<<"T", "r", "a", "f", "f", "i", "c">>), Str(<<"1", "5", ",", "7", "5", "0">>)>>, <<Str(<<"I", "n", "s", "i", "g", "h", "t">>), Str(<<"G", "r", "o", "w">>)>>, <<NaN, NaN>> }
          [] name = "ecom 2024 vs 2025" ->
                { <<Str(<<"J", "a", "n">>), Whole(100), Whole(150)>>, <<Str(<<"D", "e", "c">>), Whole(200), NaN>>,
                  <<NaN, NaN, Whole(50)>> }
          [] name = "2026 Strategy plan" ->
                { <<Str(<<"G", "r", "o", "w">>), Str(<<"B", "r", "a", "n", "d">>), Str(<<"A", "d", "s">>)>>, <<NaN, NaN, Str(<<"A", "d", "s">>)>>,
                  <<NaN, Str(<<"O", "p", "s">>), NaN>> }
          [] name = "roadmap" ->
                { <<Str(<<"Q", "2">>), Str(<<"A", "n", "n">>)>>, <<NaN, Str(<<"A", "n", "n">>)>>, <<Str(<<"Q", "1">>), NaN>> }
          [] name = "swot" ->
                { <<Str(<<"S", "t", "r", "e", "n", "g", "t", "h">>), Str(<<"B", "r", "a", "n", "d">>)>>, <<NaN, Str(<<"B", "r", "a", "n", "d">>)>>,
                  <<Str(<<"K", "e", "y", " ", "I", "n", "s", "i", "g", "h", "t">>), NaN>> }
          [] name = "Cost per X" ->
                { <<Str(<<"C", "A", "C">>), Str(<<"H", "i", "g", "h">>)>>, <<Str(<<"C", "A", "C">>), NaN>>, <<NaN, NaN>> }
          [] name = "okr" ->
                { <<MkInt(FALSE, 2025), Str(<<"O", "p", "s">>), Hundredths(70)>>,
                  <<MkInt(FALSE, 2025), NaN, NaN>>,
                  <<MkInt(FALSE, 2026), Str(<<"O", "p", "s">>), NaN>> }
          [] name = "BOB" ->
                { <<Str(<<"J", "a", "n">>), Whole(10), Whole(15), Hundredths(50)>>,
                  <<Str(<<"F", "e", "b">>), NaN, NaN, NaN>>,
                  <<NaN, Whole(20), Whole(25), Whole(40)>> }
          [] name = "BOB_review" -> {}

(***************************************************************************)
(* Reports: the workbook is edited and saved, and requests are answered,   *)
(* one at a time.  A request loads the workbook once and builds its        *)
(* context from what it loaded; nothing of it is kept once it is answered. *)
(***************************************************************************)
Init ==
    /\ workbook = WorkbookMissing
    /\ req = NoRequest
    /\ ctx = None
    /\ raw = None
    /\ decimals = <<>>
    /\ fn = "none"
    /\ out = None
    /\ standalone_sheets = None

Idle == req = NoRequest

Save(sheets) ==
    /\ Idle
    /\ workbook' = [exists |-> TRUE, readable |-> TRUE, sheets |-> sheets]
    /\ UNCHANGED <<req, ctx, cellVars, standalone_sheets>>

\* a sheet is added, empty; a workbook is made for it when there is none
AddSheet ==
    \E name \in SheetNames :
        LET sheets == load_excel_cache
        IN  /\ name \notin DOMAIN sheets
            /\ Cardinality(DOMAIN sheets) < MaxSheets
            /\ Save((name :> EmptyFrame) @@ sheets)

WriteHeader ==
    \E name \in DOMAIN workbook.sheets :
        /\ workbook.sheets[name].columns = <<>>
        /\ Save([workbook.sheets EXCEPT ![name] = DataFrame(SheetHeader(name), <<>>)])

AppendRow ==
    \E name \in DOMAIN workbook.sheets :
        \E row \in SheetRows(name) :
            /\ workbook.sheets[name].columns # <<>>
            /\ Len(workbook.sheets[name].rows) < MaxRows
            /\ Save([workbook.sheets EXCEPT
                        ![name] = DataFrame(@.columns, Append(@.rows, row))])

ClearSheet ==
    \E name \in DOMAIN workbook.sheets :
        /\ workbook.sheets[name] # EmptyFrame
        /\ Save([workbook.sheets EXCEPT ![name] = EmptyFrame])

DeleteWorkbook ==
    /\ Idle
    /\ workbook.exists
    /\ workbook' = WorkbookMissing
    /\ UNCHANGED <<req, ctx, cellVars, standalone_sheets>>

\* the file is overwritten with something read_excel cannot read
CorruptWorkbook ==
    /\ Idle
    /\ workbook # WorkbookCorrupt
    /\ workbook' = WorkbookCorrupt
    /\ UNCHANGED <<req, ctx, cellVars, standalone_sheets>>

Request(name, args, result) ==
    /\ Idle
    /\ req' = [fn |-> name, args |-> args]
    /\ ctx' = result
    /\ UNCHANGED <<workbook, cellVars, standalone_sheets>>

CallSheetToDf ==
    \E sheet_name \in SheetNames \cup {"dna"} :
        Request("sheet_to_df", <<sheet_name>>, sheet_to_df(sheet_name))

RequestEcomTarget == Request("build_ecom_target_context", <<>>, build_ecom_target_context)
RequestEcomComparison == Request("build_ecom_comparison_context", <<>>, build_ecom_comparison_context)
RequestStrategyPlan == Request("get_strategy_plan_context", <<>>, get_strategy_plan_context)
RequestRoadmap == Request("get_roadmap_context", <<>>, get_roadmap_context)
RequestSwot == Request("swot_page", <<>>, swot_page)
RequestCostPerX == Request("cost_per_x", <<>>, cost_per_x)
RequestOkr == Request("okr_page", <<>>, okr_page)
RequestBob == Request("bob_page", <<>>, bob_page)

\* the response is sent
Respond ==
    /\ ~Idle
    /\ req' = NoRequest
    /\ ctx' = None
    /\ UNCHANGED <<workbook, cellVars, standalone_sheets>>

Next ==
    \/ AddSheet
    \/ WriteHeader
    \/ AppendRow
    \/ ClearSheet
    \/ DeleteWorkbook
    \/ CorruptWorkbook
    \/ CallSheetToDf
    \/ RequestEcomTarget
    \/ RequestEcomComparison
    \/ RequestStrategyPlan
    \/ RequestRoadmap
    \/ RequestSwot
    \/ RequestCostPerX
    \/ RequestOkr
    \/ RequestBob
    \/ Respond

Spec == Init /\ [][Next]_vars

(***************************************************************************)
(* Reports over tables of several rows: the workbook holds one sheet, its  *)
(* header row as the reports name the columns or in lower case, and rows   *)
(* out of the sample rows of the sheet; the reports are requested of it.   *)
(***************************************************************************)
\* most rows of the comparison and BOB tables
MaxTableRows == 3
\* most rows of the tables that are grouped: strategy plan, swot and okr
MaxGroupRows == 4

TableSheets == {"ecom 2024 vs 2025", "BOB", "2026 Strategy plan", "swot", "okr"}

\* the header row of a sheet with its letters in lower case
LowerHeader(name) ==
    [i \in 1..Len(SheetHeader(name)) |->
        IF IsStr(SheetHeader(name)[i]) THEN Str(Lower(SheetHeader(name)[i].s))
        ELSE SheetHeader(name)[i]]

TableRows(name) ==
    CASE name = "ecom 2024 vs 2025" ->
            { <<Str(<<"J", "a", "n">>), MkFloat(FALSE, 100, 0), MkFloat(FALSE, 150, 0)>>,
              <<Str(<<"F", "e", "b">>), MkFloat(FALSE, 0, 0), MkFloat(FALSE, 50, 0)>>,
              <<Str(<<"D", "e", "c">>), MkFloat(FALSE, 200, 0), MkFloat(FALSE, 0, 0)>>,
              <<Str(<<"M", "a", "r">>), NaN, MkFloat(FALSE, 150, 0)>>,
              <<Str(<<"D", "E", "C", "E", "M", "B", "E", "R">>), MkFloat(FALSE, 50, 0), MkFloat(FALSE, 20, 0)>>,
              <<Str(<<"A", "p", "r">>), MkFloat(TRUE, 40, 0), MkFloat(FALSE, 60, 0)>>,
              <<NaN, MkFloat(FALSE, 70, 0), MkFloat(FALSE, 90, 0)>>,
              <<Str(<<"M", "a", "y">>), MkFloat(FALSE, 1205, 1), MkFloat(FALSE, 50, 0)>> }
      [] name = "2026 Strategy plan" ->
            { <<Str(<<"G", "r", "o", "w">>), Str(<<"B">>), Str(<<"A", "d", "s">>)>>,
              <<NaN, Str(<<"A">>), Str(<<"A", "d", "s">>)>>,
              <<NaN, Str(<<"C">>), NaN>>,
              <<NaN, NaN, Str(<<"A", "d", "s">>)>> }
      [] name = "swot" ->
            { <<Str(<<"B">>), Str(<<"B", "r", "a", "n", "d">>)>>,
              <<Str(<<"A">>), Str(<<"B", "r", "a", "n", "d">>)>>,
              <<Str(<<"C">>), NaN>>,
              <<Str(<<"K", "e", "y", " ", "I", "n", "s", "i", "g", "h", "t">>), Str(<<"B", "r", "a", "n", "d">>)>> }
      [] name = "okr" ->
            { <<MkInt(FALSE, 2025), Str(<<"B">>), MkFloat(FALSE, 7, 1)>>,
              <<MkInt(FALSE, 2025), Str(<<"B">>), MkFloat(FALSE, 8, 1)>>,
              <<MkInt(FALSE, 2025), Str(<<"A">>), MkFloat(FALSE, 70, 0)>>,
              <<MkInt(FALSE, 2025), Str(<<"B">>), NaN>>,
              <<MkInt(FALSE, 2025), Str(<<"C">>), Str(<<"t", "b", "d">>)>>,
              <<MkInt(FALSE, 2026), Str(<<"A">>), MkFloat(FALSE, 5, 1)>> }
      [] OTHER -> SheetRows(name)

\* the tables a sheet may hold
Tables(name) ==
    { DataFrame(header, rows) :
        header \in {SheetHeader(name), LowerHeader(name)},
        rows \in UNION {[1..n -> TableRows(name)] :
                           n \in 0..(IF name \in {"ecom 2024 vs 2025", "BOB"} THEN MaxTableRows
                                     ELSE MaxGroupRows)} }

InitTables ==
    /\ workbook \in UNION { { [exists |-> TRUE, readable |-> TRUE, sheets |-> (name :> df)] :
                                df \in Tables(name) } : name \in TableSheets }
    /\ req = NoRequest
    /\ ctx = None
    /\ raw = None
    /\ decimals = <<>>
    /\ fn = "none"
    /\ out = None
    /\ standalone_sheets = None

\* generate_standalone.py loads the sheets and builds its comparison section
\* of them; nothing is built when the load raises
CallStandaloneComparison ==
    Request("generate_standalone.build_ecom_comparison_context", <<>>,
            IF workbook.exists /\ workbook.readable
            THEN standalone_build_ecom_comparison_context(load_excel_data)
            ELSE load_excel_data)

NextTables ==
    \/ RequestEcomComparison
    \/ CallStandaloneComparison
    \/ RequestStrategyPlan
    \/ RequestSwot
    \/ RequestOkr
    \/ RequestBob
    \/ Respond

SpecTables == InitTables /\ [][NextTables]_vars

(***************************************************************************)
(* The header rows of the target and cost tables: two words with a run of  *)
(* whitespace between them and whitespace at either end.                   *)
(***************************************************************************)
\* longest run of whitespace between the two words of a header
MaxRun == 3

\* space, no-break space and tab
HeaderSpaces == {" ", "u00A0", "\t"}

HeaderLabels(first, second) ==
    { Str(lead \o first \o run \o second \o trail) :
        lead \in {<<>>, <<" ">>, <<"u00A0", "\t">>},
        run \in UNION {[1..k -> HeaderSpaces] : k \in 0..MaxRun},
        trail \in {<<>>, <<" ">>, <<"\t", "u00A0">>} }

\* the header texts of a cost table
CostLabels ==
    { Str(<<"C", "o", "s", "t", " ", "p", "e", "r", " ", "X", " ", "(", "T", "H", "B", ")">>), Str(<<"F", "a", "c", "t", "s", ":", " ", "c", "o", "s", "t", " ", "p", "e", "r", " ", "x">>), Str(<<"f", "a", "c", "t", "s", " ", "a", "n", "d", " ", "f", "i", "g", "u", "r", "e", "s">>), Str(<<"K", "e", "y", " ", "F", "a", "c", "t", "s">>),
      Str(<<"W", "h", "y", " ", "i", "m", "p", "r", "o", "v", "e">>), Str(<<"H", "o", "w", " ", "t", "o", " ", "I", "m", "p", "r", "o", "v", "e">>), Str(<<"W", "H", "A", "T", " ", "T", "O", " ", "I", "M", "P", "R", "O", "V", "E">>), Str(<<"N", "o", "t", "e", "s">>) }

\* the header rows of a cost table: up to three texts, no two renamed to one name
CostHeaders ==
    { header \in UNION {[1..n -> CostLabels] : n \in 1..3} :
        \A j, k \in 1..Len(header) : j # k => CostPerXLabel(header[j]) # CostPerXLabel(header[k]) }

CostRows ==
    << <<Str(<<"C", "P", "C">>), NaN, Str(<<"B", "i", "d", "s", " ", "a", "r", "e", " ", "l", "o", "w">>)>>,
       <<Str(<<"C", "P", "A">>), Str(<<"L", "e", "a", "d", "s", " ", "c", "o", "s", "t", " ", "m", "o", "r", "e">>), NaN>> >>

HeaderTables(name) ==
    CASE name = "2026 Ecom Target" ->
            { DataFrame(<<Str(<<"F", "u", "n", "n", "e", "l">>), label>>, << <<Str(<<"A", "w", "a", "r", "e", "n", "e", "s", "s">>), MkInt(FALSE, 1200)>> >>) :
                label \in HeaderLabels(<<"T", "a", "r", "g", "e", "t">>, <<"A", "m", "o", "u", "n", "t">>) }
      [] name = "Cost per X" ->
            { DataFrame(<<label, Str(<<"F", "a", "c", "t", "s">>)>>, << <<Str(<<"C", "P", "C">>), Str(<<"C", "l", "i", "c", "k", "s", " ", "c", "o", "s", "t", " ", "l", "e", "s", "s">>)>> >>) :
                label \in HeaderLabels(<<"C", "o", "s", "t">>, <<"p", "e", "r", " ", "X">>) }
              \cup { DataFrame(header, [i \in 1..2 |-> SubSeq(CostRows[i], 1, Len(header))]) :
                         header \in CostHeaders }

InitHeaders ==
    /\ workbook \in UNION { { [exists |-> TRUE, readable |-> TRUE, sheets |-> (name :> df)] :
                                df \in HeaderTables(name) } : name \in {"2026 Ecom Target", "Cost per X"} }
    /\ req = NoRequest
    /\ ctx = None
    /\ raw = None
    /\ decimals = <<>>
    /\ fn = "none"
    /\ out = None
    /\ standalone_sheets = None

\* generate_standalone_html: sheets = load_excel_data(excel_file); the script
\* ends when the load raises
LoadExcelData ==
    /\ Idle
    /\ standalone_sheets = None
    /\ workbook.exists /\ workbook.readable
    /\ standalone_sheets' = load_excel_data
    /\ UNCHANGED <<workbook, req, ctx, cellVars>>

\* build_ecom_target_context(sheets) of the script, also called again on the
\* sheets a call before it has left
CallStandaloneTarget ==
    /\ standalone_sheets # None
    /\ Idle \/ req.fn = "generate_standalone.build_ecom_target_context"
    /\ req' = [fn |-> "generate_standalone.build_ecom_target_context", args |-> <<>>]
    /\ ctx' = standalone_build_ecom_target_context(standalone_sheets)
    /\ standalone_sheets' = SheetsAfterTarget(standalone_sheets)
    /\ UNCHANGED <<workbook, cellVars>>

NextHeaders ==
    \/ RequestEcomTarget
    \/ RequestCostPerX
    \/ LoadExcelData
    \/ CallStandaloneTarget
    \/ Respond

SpecHeaders == InitHeaders /\ [][NextHeaders]_vars

(***************************************************************************)
(* The target, comparison, roadmap and strategy tables: the sections both  *)
(* src/app.py and the script generate_standalone.py build.                 *)
(***************************************************************************)
SectionSheets == {"2026 Ecom Target", "ecom 2024 vs 2025", "roadmap", "2026 Strategy plan"}

SectionHeaders(name) ==
    CASE name = "2026 Ecom Target" ->
            { <<Str(<<"F", "u", "n", "n", "e", "l">>), Str(<<"T", "a", "r", "g", "e", "t", " ", "A", "m", "o", "u", "n", "t">>), Str(<<"N", "o", "t", "e", "s">>)>>,
              <<Str(<<"S", "t", "a", "g", "e", " ">>), Str(<<"S", "a", "l", "e", "s", " ", " ", " ", "2", "0", "2", "6">>), Str(<<" ", "S", "t", "a", "t", "u", "s">>)>> }
      [] name = "roadmap" ->
            { <<Str(<<"Q", "u", "a", "r", "t", "e", "r">>), Str(<<"K", "e", "y", " ", "T", "o", "p", "i", "c">>), Str(<<"O", "w", "n", "e", "r">>)>>,
              <<Str(<<"Q", "u", "a", "r", "t", "e", "r", " ">>), Str(<<"T", "o", "p", "i", "c">>), Str(<<"O", "w", "n", "e", "r">>)>> }
      [] name = "2026 Strategy plan" ->
            { <<Str(<<"G", "o", "a", "l">>), Str(<<"S", "t", "r", "a", "t", "e", "g", "y", " ", "P", "i", "l", "l", "a", "r">>), Str(<<"A", "c", "t", "i", "o", "n">>)>>,
              <<Str(<<" ", "G", "o", "a", "l">>), Str(<<"S", "t", "r", "a", "t", "e", "g", "y", " ", "P", "i", "l", "l", "a", "r", " ">>), Str(<<"A", "c", "t", "i", "o", "n">>)>> }
      [] name = "ecom 2024 vs 2025" -> {SheetHeader(name)}

SectionRows(name) ==
    CASE name = "2026 Ecom Target" ->
            { <<Str(<<"K", "e", "y", " ", "I", "n", "s", "i", "g", "h", "t">>), Str(<<" ", "V", "i", "d", "e", "o", " ", "a", "d", "s", " ", "c", "o", "n", "v", "e", "r", "t", " ">>), NaN>>,
              <<Str(<<"i", "n", "s", "i", "g", "h", "t", "s">>), NaN, Str(<<" ", "N", "a", "N", " ">>)>>,
              <<Str(<<"N", "o", "t", "e">>), NaN, Str(<<"C", "u", "s", "t", "o", "m", "e", "r", "s", " ", "r", "e", "s", "p", "o", "n", "d", " ", "b", "e", "s", "t", " ", "t", "o", " ", "s", "h", "o", "r", "t", " ", "v", "i", "d", "e", "o", " ", "a", "d", "s", " ", "o", "n", " ", "m", "o", "b", "i", "l", "e">>)>>,
              <<Str(<<"N", "A", "N">>), MkFloat(FALSE, 35005, 1), Str(<<"C", "h", "e", "c", "k", "o", "u", "t", " ", "c", "o", "m", "p", "l", "e", "t", "i", "o", "n", " ", "i", "m", "p", "r", "o", "v", "e", "d", " ", "a", "f", "t", "e", "r", " ", "t", "h", "e", " ", "r", "e", "d", "e", "s", "i", "g", "n">>)>>,
              <<Str(<<"R", "e", "t", "e", "n", "t", "i", "o", "n">>), MkFloat(FALSE, 455, 1), Str(<<" ", "R", "e", "p", "e", "a", "t", " ", "b", "u", "y", "e", "r", "s", " ", "c", "o", "m", "e", " ", "b", "a", "c", "k", " ", "w", "i", "t", "h", "i", "n", " ", "t", "w", "o", " ", "w", "e", "e", "k", "s", " ">>)>>,
              <<Str(<<"L", "o", "y", "a", "l", "t", "y">>), NaN, Str(<<"M", "e", "m", "b", "e", "r", "s", " ", "b", "u", "y", " ", "m", "o", "r", "e", " ", "o", "f", "t", "e", "n", " ", "t", "h", "a", "n", " ", "m", "o", "s", "t">>)>> }
      [] name = "roadmap" ->
            { <<Str(<<"Q", "2">>), Str(<<"L", "a", "u", "n", "c", "h">>), Str(<<"A", "n", "n">>)>>,
              <<Str(<<"Q", "1">>), NaN, Str(<<"B", "o", "b">>)>>,
              <<Str(<<"Q", "2">>), Str(<<"A", "u", "d", "i", "t">>), Str(<<"C", "y">>)>>,
              <<NaN, Str(<<"P", "l", "a", "n">>), Str(<<"D", "e", "e">>)>> }
      [] name = "2026 Strategy plan" ->
            { <<Str(<<"G", "r", "o", "w">>), Str(<<"B">>), Str(<<"A", "d", "s">>)>>,
              <<NaN, Str(<<"A">>), Str(<<"M", "a", "i", "l">>)>>,
              <<Str(<<"R", "e", "t", "a", "i", "n", " ">>), NaN, Str(<<"S", "E", "O">>)>>,
              <<Str(<<" ">>), Str(<<" ">>), NaN>> }
      [] name = "ecom 2024 vs 2025" ->
            { <<Str(<<"J", "a", "n">>), MkFloat(FALSE, 100, 0), MkFloat(FALSE, 150, 0)>>,
              <<Str(<<"F", "e", "b">>), MkFloat(FALSE, 1205, 1), MkFloat(FALSE, 50, 0)>>,
              <<Str(<<"M", "a", "r">>), MkFloat(FALSE, 1, 5), MkFloat(FALSE, 50, 0)>>,
              <<Str(<<" ", "A", "p", "r">>), MkFloat(FALSE, 2000, 0), MkFloat(FALSE, 900, 0)>> }

\* the tables a sheet may hold
SectionTables(name) ==
    { DataFrame(header, rows) :
        header \in SectionHeaders(name),
        rows \in UNION {[1..n -> SectionRows(name)] :
                           n \in 0..(IF name \in {"2026 Ecom Target", "ecom 2024 vs 2025"}
                                     THEN MaxTableRows ELSE MaxGroupRows)} }

InitSections ==
    /\ workbook \in UNION { { [exists |-> TRUE, readable |-> TRUE, sheets |-> (name :> df)] :
                                df \in SectionTables(name) } : name \in SectionSheets }
    /\ req = NoRequest
    /\ ctx = None
    /\ raw = None
    /\ decimals = <<>>
    /\ fn = "none"
    /\ out = None
    /\ standalone_sheets = None

\* get_roadmap_context(sheets) of the script; the script ends when it raises
CallStandaloneRoadmap ==
    /\ standalone_sheets # None
    /\ Idle
    /\ req' = [fn |-> "generate_standalone.get_roadmap_context", args |-> <<>>]
    /\ ctx' = standalone_get_roadmap_context(standalone_sheets)
    /\ standalone_sheets' = SheetsAfterRoadmap(standalone_sheets)
    /\ UNCHANGED <<workbook, cellVars>>

NextSections ==
    \/ RequestEcomTarget
    \/ RequestEcomComparison
    \/ CallStandaloneComparison
    \/ RequestRoadmap
    \/ RequestStrategyPlan
    \/ LoadExcelData
    \/ CallStandaloneTarget
    \/ CallStandaloneRoadmap
    \/ Respond

SpecSections == InitSections /\ [][NextSections]_vars

(***************************************************************************)
(* The BOB tables: months with their order counts, totals and shares.      *)
(***************************************************************************)
BobHeader == <<Str(<<"M", "o", "n", "t", "h", "s">>), Str(<<"B", "O", "B", " ", "O", "r", "d", "e", "r">>), Str(<<"S", "e", "l", "f", " ", "O", "r", "d", "e", "r">>), Str(<<"G", "r", "a", "n", "d", " ", "T", "o", "t", "a", "l">>), Str(<<"C", "S", "%">>)>>

BobRows ==
    { <<Str(<<"J", "a", "n">>), MkInt(FALSE, 10), MkInt(FALSE, 15), MkInt(FALSE, 25), MkFloat(FALSE, 5, 1)>>,
      <<Str(<<"F", "e", "b">>), MkInt(FALSE, 20), MkFloat(FALSE, 55, 1), MkInt(FALSE, 25), MkInt(FALSE, 40)>>,
      <<Str(<<"M", "a", "r">>), NaN, NaN, NaN, NaN>>,
      <<Str(<<"A", "p", "r">>), Str(<<"n", "/", "a">>), Str(<<"1", ",", "2", "0", "0">>), MkInt(FALSE, 0), Str(<<"t", "b", "d">>)>>,
      <<Str(<<"M", "a", "y">>), MkInt(FALSE, 5), MkInt(FALSE, 5), MkInt(TRUE, 3), NaN>>,
      <<NaN, MkInt(FALSE, 30), MkInt(FALSE, 2), MkInt(FALSE, 32), MkFloat(FALSE, 7, 1)>> }

InitBob ==
    /\ workbook \in { [exists |-> TRUE, readable |-> TRUE,
                       sheets |-> ("BOB" :> DataFrame(BobHeader, rows))] :
                          rows \in UNION {[1..n -> BobRows] : n \in 0..MaxTableRows} }
    /\ req = NoRequest
    /\ ctx = None
    /\ raw = None
    /\ decimals = <<>>
    /\ fn = "none"
    /\ out = None
    /\ standalone_sheets = None

NextBob ==
    \/ RequestBob
    \/ Respond

SpecBob == InitBob /\ [][NextBob]_vars

(***************************************************************************)
(* Claims about the Cell Normalizer, checked under SpecCell.               *)
(***************************************************************************)
Called(name) == fn = name

\* the text of a str literal of the claims
Text1000 == <<"1", ",", "0", "0", "0">>
TextNan == <<"n", "a", "n">>

\* s is a decimal literal: an optional "-", then digits taken from Digits with
\* at most one point among them and at least one digit
IsDecimalText(s, Digits) ==
    LET body == IF s # <<>> /\ Head(s) = "-" THEN Tail(s) ELSE s
    IN  /\ \A i \in 1..Len(body) : body[i] \in Digits \cup {"."}
        /\ Cardinality({i \in 1..Len(body) : body[i] = "."}) <= 1
        /\ \E i \in 1..Len(body) : body[i] \in Digits

\* the float v is the value of the decimal literal s
IsValueOfText(v, s) ==
    LET body == IF s # <<>> /\ Head(s) = "-" THEN Tail(s) ELSE s
        point == IndexOf(body, ".")
        places == IF point = 0 THEN 0 ELSE Len(body) - point
        number == DigitsValue(RemoveChar(body, "."))
        \* v.m / 10^v.x = number / 10^places, both sides scaled to integers
        shift == IF v.x < 0 THEN 0 - v.x ELSE 0
    IN  /\ v.t = "float"
        /\ v.neg = (s # <<>> /\ Head(s) = "-")
        /\ v.m * Pow(10, places + shift) = number * Pow(10, v.x + shift)

\* text is the number v written in fixed notation with d digits after the
\* point, rounded to the nearest such number, the integer digits in groups of
\* three separated by commas when comma is TRUE
IsFixedNotation(text, v, d, comma) ==
    LET signed == text # <<>> /\ Head(text) = "-"
        body == IF signed THEN Tail(text) ELSE text
        point == IndexOf(body, ".")
        whole == IF point = 0 THEN body ELSE SubSeq(body, 1, point - 1)
        places == IF point = 0 THEN <<>> ELSE Drop(body, point)
        wholeDigits == RemoveChar(whole, ",")
        n == DigitsValue(wholeDigits \o places)
        x == IF v.t = "int" THEN 0 ELSE v.x
    IN  /\ signed = v.neg
        /\ (point = 0) = (d = 0)
        /\ Len(places) = d
        /\ \A i \in 1..Len(places) : places[i] \in AsciiDigits
        /\ wholeDigits # <<>>
        /\ \A i \in 1..Len(wholeDigits) : wholeDigits[i] \in AsciiDigits
        /\ Len(wholeDigits) > 1 => wholeDigits[1] # "0"
        /\ \A i \in 1..Len(whole) :
              (whole[i] = ",") = (comma /\ i > 1 /\ (Len(whole) - i + 1) % 4 = 0)
        /\ IF x <= d THEN n = v.m * Pow(10, d - x)
           ELSE LET unit == Pow(10, x - d)
                    diff == n * unit - v.m
                IN  2 * diff <= unit /\ 2 * (0 - diff) <= unit

\* C4: for every input cell value, none of parse_number, fmt_money,
\* clean_latex_math and clean_number raises.
C4_CellNormalizerNeverRaises ==
    fn \in {"parse_number", "fmt_money", "clean_latex_math", "clean_number"}
        => ~IsRaise(out)

\* C5 as stated: parse_number returns None for None, '' and "nan"; otherwise
\* it keeps of the value's text only the characters in [0-9.-] and returns the
\* float value of the remainder, or None when the remainder is no float.
C5_Claimed_ParseNumberKeepsAsciiOnly ==
    Called("parse_number") =>
        LET kept == SelectSeq(StrOf(raw), LAMBDA c : c \in AsciiDigits \cup {".", "-"})
        IN  IF raw \in {None, EmptyStr, Str(TextNan)} \/ ~IsDecimalText(kept, AsciiDigits)
            THEN out = None
            ELSE IsValueOfText(out, kept)

\* C5 amended: parse_number returns None for None, '' and "nan"; otherwise it
\* keeps of the value's text the decimal digits of any script (the class \d),
\* "." and "-", and returns the float value of the remainder, or None when the
\* remainder is empty or no float.
C5_ParseNumberKeepsDigitsPointMinus ==
    Called("parse_number") =>
        LET Digits == AsciiDigits \cup UnicodeDigits
            kept == SelectSeq(StrOf(raw), LAMBDA c : c \in Digits \cup {".", "-"})
        IN  IF raw \in {None, EmptyStr, Str(TextNan)} \/ ~IsDecimalText(kept, Digits)
            THEN out = None
            ELSE IsValueOfText(out, kept)

\* C5 witness: parse_number was applied to "1,000" and returned 1000.0
C5_Witness_GroupedNumberParsed ==
    Called("parse_number") /\ raw = Str(Text1000) /\ out = MkFloat(FALSE, 1000, 0)

\* C4 failing input: clean_number applied to "." raised ValueError
C4_Witness_CleanNumberRaised ==
    Called("clean_number") /\ raw = Str(<<".">>) /\ out = Raise("ValueError")

\* the factor, as a power of ten, that the claim gives the unit letter
UnitExponent(unit) ==
    CASE unit = "B" -> 9 [] unit = "M" -> 6 [] unit = "L" -> 5 [] OTHER -> 0

\* C6: clean_number scales a decimal number followed by an optional unit
\* letter: "B" by 1e9, "M" by 1e6, "L" by 1e5, no letter by 1; the empty string
\* comes back as the empty string.
C6_CleanNumberScalesByUnit ==
    (Called("clean_number") /\ IsStr(raw)) =>
        LET s == raw.s
            hasUnit == s # <<>> /\ s[Len(s)] \in {"B", "M", "L"}
            number == RStrip(IF hasUnit THEN SubSeq(s, 1, Len(s) - 1) ELSE s)
            e == IF hasUnit THEN UnitExponent(s[Len(s)]) ELSE 0
        IN  /\ s = <<>> => out = EmptyStr
            /\ (IsDecimalText(number, AsciiDigits) /\ Head(number) \notin {"-", "."}
                    /\ number[Len(number)] # ".")
                 => /\ out.t = "float"
                    /\ IsValueOfText(TimesPow10(out, 0 - e), number)

\* C6 failing input: clean_number applied to "180 L" returned 180.0, the unit
\* letter L being none that the search captures
C6_Witness_LakhNotScaled ==
    /\ Called("clean_number")
    /\ raw = Str(<<"1", "8", "0", " ", "L">>)
    /\ out = MkFloat(FALSE, 180, 0)

\* the markup fragments of a text: each \mathbf{ and each \rightarrow is one
\* fragment, every other character one fragment of its own
RECURSIVE Fragments(_)
Fragments(s) ==
    IF s = <<>> THEN <<>>
    ELSE IF StartsWith(s, MathbfOpen)
         THEN <<MathbfOpen>> \o Fragments(Drop(s, Len(MathbfOpen)))
    ELSE IF StartsWith(s, RightArrow)
         THEN <<RightArrow>> \o Fragments(Drop(s, Len(RightArrow)))
    ELSE <<<<Head(s)>>>> \o Fragments(Tail(s))

\* the fragments with every \mathbf{ ... } wrapper taken off its content, from
\* the left, a wrapper ending at the first "}" after it opens
RECURSIVE Unwrapped(_)
Unwrapped(fs) ==
    IF fs = <<>> THEN <<>>
    ELSE LET closes == {i \in 2..Len(fs) : fs[i] = <<"}">>}
         IN  IF Head(fs) = MathbfOpen /\ closes # {}
             THEN LET j == CHOOSE i \in closes : \A k \in closes : i <= k
                  IN  SubSeq(fs, 2, j - 1) \o Unwrapped(Drop(fs, j))
             ELSE <<Head(fs)>> \o Unwrapped(Tail(fs))

\* the fragments with every $ ... $ span replaced by what is between the two
\* dollars, from the left, a span lying within one line
RECURSIVE Undollared(_)
Undollared(fs) ==
    IF fs = <<>> THEN <<>>
    ELSE LET ends == {i \in 2..Len(fs) :
                        /\ fs[i] = <<"$">>
                        /\ \A k \in 2..(i - 1) : fs[k] \notin {<<"$">>, <<"\n">>}}
         IN  IF Head(fs) = <<"$">> /\ ends # {}
             THEN LET j == CHOOSE i \in ends : TRUE
                  IN  SubSeq(fs, 2, j - 1) \o Undollared(Drop(fs, j))
             ELSE <<Head(fs)>> \o Undollared(Tail(fs))

IsFloatText(v) ==
    IsStr(v) /\ IsDecimalText(Strip(v.s), AsciiDigits \cup UnicodeDigits)

\* the number a decimal literal denotes, as (+/-) m / 10^x
TextNumber(s) ==
    LET neg == s # <<>> /\ Head(s) = "-"
        body == IF neg THEN Tail(s) ELSE s
        point == IndexOf(body, ".")
    IN  [t |-> "float", neg |-> neg,
         m |-> DigitsValue(RemoveChar(body, ".")),
         x |-> IF point = 0 THEN 0 ELSE Len(body) - point]

\* the number 100 * v
TimesHundred(v) ==
    LET x == IF v.t = "int" THEN 0 ELSE v.x
    IN  IF x >= 2 THEN [t |-> "float", neg |-> v.neg, m |-> v.m, x |-> x - 2]
        ELSE [t |-> "float", neg |-> v.neg, m |-> v.m * Pow(10, 2 - x), x |-> 0]

\* |v| <= 1
MagnitudeAtMostOne(v) ==
    LET x == IF v.t = "int" THEN 0 ELSE v.x
    IN  IF x >= 0 THEN v.m <= Pow(10, x) ELSE v.m = 0

C9_Claimed_FmtPctRescalesFractions ==
    Called("fmt_pct") =>
        /\ IsStr(out)
        /\ raw = None => out = Str(<<"u2014">>)
        /\ (IsNumber(raw) \/ IsFloatText(raw)) =>
              LET v == IF IsNumber(raw) THEN raw ELSE TextNumber(Strip(raw.s))
                  shown == IF MagnitudeAtMostOne(v) THEN TimesHundred(v) ELSE v
              IN  /\ out.s # <<>> /\ out.s[Len(out.s)] = "%"
                  /\ IsFixedNotation(SubSeq(out.s, 1, Len(out.s) - 1), shown, 1, FALSE)

\* C9 amended: fmt_pct converts with float() and formats the number as it is,
\* without rescaling (its caller hands it delta_pct, a percentage already),
\* with one decimal place and a trailing "%"; float('nan') and the text "nan"
\* give "nan%"; None and every other value float() rejects give the em dash.
C9_FmtPctFormatsWithoutRescaling ==
    Called("fmt_pct") =>
        /\ IsStr(out)
        /\ IF IsNumber(raw) \/ IsFloatText(raw)
           THEN LET v == IF IsNumber(raw) THEN raw ELSE TextNumber(Strip(raw.s))
                IN  /\ out.s # <<>> /\ out.s[Len(out.s)] = "%"
                    /\ IsFixedNotation(SubSeq(out.s, 1, Len(out.s) - 1), v, 1, FALSE)
           ELSE IF raw \in {NaN, Str(TextNan)} THEN out = Str(TextNan \o <<"%">>)
           ELSE out = Str(<<"u2014">>)

\* C9 witness: fmt_pct was applied to 0.5 and returned "0.5%", not "50.0%"
C9_Witness_FractionNotRescaled ==
    /\ Called("fmt_pct")
    /\ raw = MkFloat(FALSE, 5, 1)
    /\ out = Str(<<"0", ".", "5", "%">>)

\* C10: fmt_money(raw, decimals) returns the empty string exactly when
\* parse_number(raw) is None, and otherwise the parsed number with comma
\* thousands separators and exactly decimals digits after the point, 2 when
\* decimals is left out.
C10_FmtMoneyFormatsParsedNumber ==
    Called("fmt_money") =>
        LET d == IF decimals = <<>> THEN 2 ELSE decimals[1]
            num == parse_number(raw)
        IN  /\ IsStr(out)
            /\ (out = EmptyStr) = (num = None)
            /\ num # None => IsFixedNotation(out.s, num, d, TRUE)

\* C10 witness: fmt_money("15,750") with decimals left out gave "15,750.00"
C10_Witness_DefaultTwoDecimals ==
    /\ Called("fmt_money")
    /\ decimals = <<>>
    /\ raw = Str(<<"1", "5", ",", "7", "5", "0">>)
    /\ out = Str(<<"1", "5", ",", "7", "5", "0", ".", "0", "0">>)

\* the digits before the point of a decimal literal
WholeDigits(s) ==
    LET body == IF s # <<>> /\ Head(s) = "-" THEN Tail(s) ELSE s
        point == IndexOf(body, ".")
    IN  IF point = 0 THEN body ELSE SubSeq(body, 1, point - 1)

\* the number of digits before the point of the float v
IntegerDigits(v) ==
    IF Len(NatDigits(v.m)) - v.x < 1 THEN 1 ELSE Len(NatDigits(v.m)) - v.x

\* the float v is the number of the decimal literal s up to rounding to d
\* decimal places: it has the sign of s, as many digits before the point (one
\* more when the rounding carries) and lies within half a unit of the d-th
\* place of it
IsRoundingOfText(v, s, d) ==
    /\ v.t = "float"
    /\ v.neg = (s # <<>> /\ Head(s) = "-")
    /\ IntegerDigits(v) - Len(WholeDigits(s)) \in {0, 1}
    /\ LET x == IF TextNumber(s).x > d THEN TextNumber(s).x ELSE d
           diff == Scaled(v, x) - Scaled(TextNumber(s), x)
       IN  2 * diff <= Pow(10, x - d) /\ 2 * (0 - diff) <= Pow(10, x - d)

\* C11: for every numeric text with thousands separators, parsing it,
\* formatting the number with fmt_money and parsing the formatted text again
\* gives the number first parsed, up to rounding to the decimals formatted.
C11_RoundTripKeepsMagnitude ==
    Called("round_trip") =>
        IsRoundingOfText(out, RemoveChar(raw.s, ","), IF decimals = <<>> THEN 2 ELSE decimals[1])

\* C11 failing input: "10,000,000,000,000,000" is parsed as 1e16, which
\* fmt_money formats as "116.00", and that is parsed as 116.0
C11_Witness_TenQuadrillionBecomes116 ==
    /\ Called("round_trip")
    /\ raw = Str(<<"1", "0", ",", "0", "0", "0", ",", "0", "0", "0", ",", "0", "0", "0", ",",
                   "0", "0", "0", ",", "0", "0", "0">>)
    /\ decimals = <<>>
    /\ out = MkFloat(FALSE, 116, 0)

(***************************************************************************)
(* Claims about the table source and the report builders, checked under    *)
(* Spec.                                                                   *)
(***************************************************************************)
Requested(name) == req.fn = name

\* the call raised instead of returning
Raised == "t" \in DOMAIN ctx /\ ctx.t = "raise"

\* the workbook can be read and holds the sheet
Stored(sheet_name) ==
    workbook.exists /\ workbook.readable /\ sheet_name \in DOMAIN workbook.sheets

\* the sheet is missing, or its table has no rows, with or without a header row
NoRows(sheet_name) == ~Stored(sheet_name) \/ workbook.sheets[sheet_name].rows = <<>>

SourceSheet(builder) ==
    CASE builder = "build_ecom_target_context" -> "2026 Ecom Target"
      [] builder = "build_ecom_comparison_context" -> "ecom 2024 vs 2025"
      [] builder = "get_strategy_plan_context" -> "2026 Strategy plan"
      [] builder = "get_roadmap_context" -> "roadmap"
      [] builder = "swot_page" -> "swot"
      [] builder = "cost_per_x" -> "Cost per X"
      [] builder = "okr_page" -> "okr"
      [] builder = "bob_page" -> "BOB"

Builders ==
    { "build_ecom_target_context", "build_ecom_comparison_context", "get_strategy_plan_context",
      "get_roadmap_context", "swot_page", "cost_per_x", "okr_page", "bob_page" }

TextZero == Str(<<"0">>)
TextDash == Str(<<"-">>)

\* the context of a report without rows: the row list is empty and the
\* aggregates are the fallbacks
IsFallbackContext(builder, c) ==
    CASE builder = "build_ecom_target_context" ->
            c.target_rows = <<>> /\ c.target_columns = <<>> /\ c.target_insight = EmptyStr
      [] builder = "build_ecom_comparison_context" ->
            /\ c.comp_rows = <<>>
            /\ c.comp_summary.total_2024 = TextZero /\ c.comp_summary.total_2025 = TextZero
            /\ c.comp_summary.avg_2024 = TextZero /\ c.comp_summary.avg_2025 = TextZero
            /\ c.comp_summary.max_month = TextDash /\ c.comp_summary.min_month = TextDash
            /\ c.comp_summary.max_value = TextZero /\ c.comp_summary.min_value = TextZero
      [] builder = "get_strategy_plan_context" -> c.pillars = <<>>
      [] builder = "get_roadmap_context" -> c.quarters = <<>> /\ c.quarter_order = <<>>
      [] builder = "swot_page" -> c.sections = <<>> /\ c.key_insights = <<>>
      [] builder = "cost_per_x" -> c.rows = <<>>
      [] builder = "okr_page" -> c.comparison = <<>>
      [] builder = "bob_page" ->
            /\ c.rows = <<>>
            /\ c.summary.total_bob = TextZero /\ c.summary.total_self = TextZero
            /\ c.summary.total_grand = TextZero
            /\ c.summary.best_month = TextDash /\ c.summary.best_month_value = TextZero

\* C1: when the source sheet is missing or its table has no rows, with or
\* without a header row, every report builder returns a context with an empty
\* row list and the fallback aggregates, and does not raise.
C1_EmptyTableGivesFallbackContext ==
    \A builder \in Builders :
        Requested(builder) /\ NoRows(SourceSheet(builder)) =>
            ~Raised /\ IsFallbackContext(builder, ctx)

\* the comparison builder asked for a sheet that holds only its header row
C1_Witness_HeaderOnlyComparisonRaises ==
    /\ Requested("build_ecom_comparison_context")
    /\ Stored("ecom 2024 vs 2025")
    /\ workbook.sheets["ecom 2024 vs 2025"].columns # <<>>
    /\ workbook.sheets["ecom 2024 vs 2025"].rows = <<>>
    /\ ctx = Raise("ValueError")

\* C2: on a table that has rows, blank cells in the categorical and score
\* columns included, swot_page, okr_page, get_roadmap_context and
\* get_strategy_plan_context return a context and do not raise.
C2_BlankCellsDoNotRaise ==
    \A builder \in {"swot_page", "okr_page", "get_roadmap_context", "get_strategy_plan_context"} :
        Requested(builder) /\ ~NoRows(SourceSheet(builder)) => ~Raised

C2_Witness_BlankCategoryRaises ==
    /\ Requested("swot_page")
    /\ Stored("swot")
    /\ \E i \in 1..Len(workbook.sheets["swot"].rows) : workbook.sheets["swot"].rows[i][1] = NaN
    /\ ctx = Raise("AttributeError")

\* C3: sheet_to_df(sheet_name) never raises: it returns the empty table when
\* the workbook does not exist, cannot be read or lacks the sheet, and the
\* table stored under the sheet name otherwise.
C3_SheetToDfReturnsStoredOrEmpty ==
    Requested("sheet_to_df") =>
        /\ ~Raised
        /\ ctx = IF Stored(req.args[1]) THEN workbook.sheets[req.args[1]] ELSE EmptyFrame

C3_Witness_UnknownSheetGivesEmptyTable ==
    /\ Requested("sheet_to_df")
    /\ workbook.exists /\ workbook.readable
    /\ \E other \in DOMAIN workbook.sheets : workbook.sheets[other].rows # <<>>
    /\ req.args[1] \notin DOMAIN workbook.sheets
    /\ ctx = EmptyFrame

(***************************************************************************)
(* Claims about the reports over tables of several rows, checked under     *)
(* SpecTables.                                                             *)
(***************************************************************************)
\* the rows of the comparison sheet as stored, none without the sheet
StoredRows(sheet_name) ==
    IF Stored(sheet_name) THEN workbook.sheets[sheet_name].rows ELSE <<>>

\* a number cell in tenths, a missing cell counting as 0
Tenths(cell) == IF cell = NaN THEN 0 ELSE Scaled(cell, 1)

\* the sum of the cells of column j of the rows, in tenths
RECURSIVE TotalTenths(_, _)
TotalTenths(rows, j) ==
    IF rows = <<>> THEN 0 ELSE Tenths(Head(rows)[j]) + TotalTenths(Tail(rows), j)

\* text is the quotient n / d, d > 0, rounded to a whole number and written
\* with its sign and its digits in groups of three
IsRoundedQuotient(text, n, d) ==
    LET signed == text # <<>> /\ Head(text) = "-"
        whole == IF signed THEN Tail(text) ELSE text
        digits == RemoveChar(whole, ",")
        size == IF n < 0 THEN 0 - n ELSE n
        diff == DigitsValue(digits) * d - size
    IN  /\ signed = (n < 0)
        /\ digits # <<>>
        /\ \A i \in 1..Len(digits) : digits[i] \in AsciiDigits
        /\ Len(digits) > 1 => digits[1] # "0"
        /\ \A i \in 1..Len(whole) : (whole[i] = ",") = (i > 1 /\ (Len(whole) - i + 1) % 4 = 0)
        /\ 2 * diff <= d /\ 2 * (0 - diff) <= d

ComparisonBuilt ==
    /\ Requested("build_ecom_comparison_context")
          \/ Requested("generate_standalone.build_ecom_comparison_context")
    /\ ~Raised

\* the magnitude of the number v in hundredths, what is beyond them cut off
Hundredths(v) ==
    IF Exp10(v) <= 2 THEN v.m * Pow(10, 2 - Exp10(v)) ELSE v.m \div Pow(10, Exp10(v) - 2)

\* pct is n / d * 100 for the integers n and d # 0, to its hundredths
IsPercentOf(pct, n, d) ==
    LET num == 10000 * (IF n < 0 THEN 0 - n ELSE n)
        den == IF d < 0 THEN 0 - d ELSE d
    IN  /\ IsNumber(pct)
        /\ Hundredths(pct) * den <= num
        /\ num < (Hundredths(pct) + 1) * den
        /\ Hundredths(pct) # 0 => pct.neg = ((n < 0) # (d < 0))

\* C13: in every row of the comparison report, of either implementation,
\* delta is the 2025 value minus the 2024 value, and delta_pct is delta /
\* value_2024 * 100 when the 2024 value is not zero and null when it is.
C13_DeltaAndDeltaPctOfEveryRow ==
    ComparisonBuilt =>
        \A i \in 1..Len(ctx.comp_rows) :
            LET row == ctx.comp_rows[i]
            IN  /\ IsNumber(row["delta"])
                /\ Scaled(row["delta"], 1) = Scaled(row["2025"], 1) - Scaled(row["2024"], 1)
                /\ IF row["2024"].m # 0
                   THEN IsPercentOf(row["delta_pct"],
                                    Scaled(row["2025"], 1) - Scaled(row["2024"], 1),
                                    Scaled(row["2024"], 1))
                   ELSE row["delta_pct"] = None

\* C13 failing input: for Feb 0 50 generate_standalone.py gives delta 0 and
\* delta_pct 0
C13_Witness_StandaloneZeroDelta ==
    /\ Requested("generate_standalone.build_ecom_comparison_context")
    /\ StoredRows("ecom 2024 vs 2025") = << <<Str(<<"F", "e", "b">>), MkFloat(FALSE, 0, 0), MkFloat(FALSE, 50, 0)>> >>
    /\ Len(ctx.comp_rows) = 1
    /\ ctx.comp_rows[1]["2025"] = MkFloat(FALSE, 50, 0)
    /\ ctx.comp_rows[1]["delta"] = Zero
    /\ ctx.comp_rows[1]["delta_pct"] = Zero

\* build_ecom_comparison_context of src/app.py returned a report whose rows
\* are the rows of the sheet, in their order, with the 2025 values of the
\* sheet, a missing value counting as 0
ReportOfStoredRows ==
    /\ Requested("build_ecom_comparison_context")
    /\ ~Raised
    /\ Len(ctx.comp_rows) = Len(StoredRows("ecom 2024 vs 2025"))
    /\ \A i \in 1..Len(ctx.comp_rows) :
          Scaled(ctx.comp_rows[i]["2025"], 1) = Tenths(StoredRows("ecom 2024 vs 2025")[i][3])

\* max_month and max_value, or min_month and min_value, are the month and
\* the formatted 2025 value of row i of the report
IsSummaryRow(month, value, i) ==
    /\ month = ctx.comp_rows[i]["Months"]
    /\ IsRoundedQuotient(value.s, Scaled(ctx.comp_rows[i]["2025"], 1), 10)

\* C14: whenever build_ecom_comparison_context returns a report of at least
\* one row, the rows of the report are the rows of the sheet in input order,
\* and max_month and max_value are those of the first row among the rows
\* that have the greatest 2025 value.
C14_BestMonthIsFirstMaximum ==
    Requested("build_ecom_comparison_context") /\ ~Raised
      /\ StoredRows("ecom 2024 vs 2025") # <<>> =>
        /\ ReportOfStoredRows
        /\ \E i \in 1..Len(ctx.comp_rows) :
              /\ \A j \in 1..Len(ctx.comp_rows) :
                    Scaled(ctx.comp_rows[j]["2025"], 1) <= Scaled(ctx.comp_rows[i]["2025"], 1)
              /\ \A j \in 1..(i - 1) :
                    Scaled(ctx.comp_rows[j]["2025"], 1) < Scaled(ctx.comp_rows[i]["2025"], 1)
              /\ IsSummaryRow(ctx.comp_summary.max_month, ctx.comp_summary.max_value, i)

\* C14 witness: Mar 150 after Jan 150 leaves Jan the best month; a missing
\* 2024 value of Mar does not matter
C14_Witness_TieGoesToFirstRow ==
    /\ Requested("build_ecom_comparison_context")
    /\ Stored("ecom 2024 vs 2025")
    /\ workbook.sheets["ecom 2024 vs 2025"] =
          DataFrame(SheetHeader("ecom 2024 vs 2025"),
                    << <<Str(<<"F", "e", "b">>), MkFloat(FALSE, 0, 0), MkFloat(FALSE, 50, 0)>>,
                       <<Str(<<"J", "a", "n">>), MkFloat(FALSE, 100, 0), MkFloat(FALSE, 150, 0)>>,
                       <<Str(<<"M", "a", "r">>), NaN, MkFloat(FALSE, 150, 0)>> >>)
    /\ ctx.comp_summary.max_month = Str(<<"J", "a", "n">>)
    /\ ctx.comp_summary.max_value = Str(<<"1", "5", "0">>)

\* the month label of a report row is "dec" or "december" in any letter case
IsDecember(label) ==
    IsStr(label) /\ Lower(label.s) \in {<<"d", "e", "c">>, <<"d", "e", "c", "e", "m", "b", "e", "r">>}

\* C15: whenever a comparison builder, of either implementation, returns a
\* report of at least one row, min_month and min_value are those of a row
\* with the least 2025 value among the rows that are not December rows, and
\* among all rows only when every row is a December row.
C15_WorstMonthSkipsDecember ==
    ComparisonBuilt /\ ctx.comp_rows # <<>> =>
        LET others == {i \in 1..Len(ctx.comp_rows) : ~IsDecember(ctx.comp_rows[i]["Months"])}
            eligible == IF others # {} THEN others ELSE 1..Len(ctx.comp_rows)
        IN  \E i \in eligible :
                /\ \A j \in eligible :
                      Scaled(ctx.comp_rows[i]["2025"], 1) <= Scaled(ctx.comp_rows[j]["2025"], 1)
                /\ IsSummaryRow(ctx.comp_summary.min_month, ctx.comp_summary.min_value, i)

\* C15 failing input: of Jan 100 150, Feb 0 50, Dec 200 0 the worst month of
\* generate_standalone.py is Dec
C15_Witness_StandaloneWorstIsDecember ==
    /\ Requested("generate_standalone.build_ecom_comparison_context")
    /\ StoredRows("ecom 2024 vs 2025") =
          << <<Str(<<"J", "a", "n">>), MkFloat(FALSE, 100, 0), MkFloat(FALSE, 150, 0)>>,
             <<Str(<<"F", "e", "b">>), MkFloat(FALSE, 0, 0), MkFloat(FALSE, 50, 0)>>,
             <<Str(<<"D", "e", "c">>), MkFloat(FALSE, 200, 0), MkFloat(FALSE, 0, 0)>> >>
    /\ Len(ctx.comp_rows) = 3
    /\ ctx.comp_summary.min_month = Str(<<"D", "e", "c">>)
    /\ ctx.comp_summary.min_value = Str(<<"0">>)

\* the sum, in tenths, of the values of a year over the rows of the report
\* that have both values nonzero
RECURSIVE BothNonzeroTenths(_, _)
BothNonzeroTenths(comp_rows, year) ==
    IF comp_rows = <<>> THEN 0
    ELSE (IF Head(comp_rows)["2024"].m # 0 /\ Head(comp_rows)["2025"].m # 0
          THEN Scaled(Head(comp_rows)[year], 1) ELSE 0)
         + BothNonzeroTenths(Tail(comp_rows), year)

\* text is the total of n tenths as generate_standalone.py displays it
IsDisplayedTotal(text, n) ==
    IF n > 0 THEN IsRoundedQuotient(text.s, n, 10) ELSE text = Str(<<"u2014">>)

\* C16: whenever generate_standalone.build_ecom_comparison_context returns a
\* report with rows, its totals are those of the rows that have both values
\* nonzero: every such row is added to them and no row with a zero side is.
C16_StandaloneAddsBothNonzeroRows ==
    Requested("generate_standalone.build_ecom_comparison_context") /\ ~Raised
      /\ StoredRows("ecom 2024 vs 2025") # <<>> =>
        /\ IsDisplayedTotal(ctx.comp_summary.total_2024, BothNonzeroTenths(ctx.comp_rows, "2024"))
        /\ IsDisplayedTotal(ctx.comp_summary.total_2025, BothNonzeroTenths(ctx.comp_rows, "2025"))

\* C16 failing input: the row Apr -40 60 has both values nonzero and is not
\* added to the totals
C16_Witness_NegativeSideNotAdded ==
    /\ Requested("generate_standalone.build_ecom_comparison_context")
    /\ StoredRows("ecom 2024 vs 2025") = << <<Str(<<"A", "p", "r">>), MkFloat(TRUE, 40, 0), MkFloat(FALSE, 60, 0)>> >>
    /\ Len(ctx.comp_rows) = 1
    /\ ctx.comp_rows[1]["2024_fmt"] = Str(<<"-", "4", "0">>)
    /\ ctx.comp_summary.total_2025 = Str(<<"u2014">>)

\* the sheet of a builder is stored with the header row as the report names
\* the columns
StoredAsNamed(builder) ==
    /\ Stored(SourceSheet(builder))
    /\ workbook.sheets[SourceSheet(builder)].columns = SheetHeader(SourceSheet(builder))

\* the keys of a list each once, in the order in which they are first seen
RECURSIVE FirstSeen(_)
FirstSeen(keys) ==
    IF keys = <<>> THEN <<>>
    ELSE LET before == FirstSeen(SubSeq(keys, 1, Len(keys) - 1))
         IN  IF \E i \in 1..Len(before) : before[i] = keys[Len(keys)] THEN before
             ELSE Append(before, keys[Len(keys)])

\* the category a row of the sheet of a builder is grouped by: the pillar,
\* "General" without one; the SWOT category; the functional team
CategoryOf(builder, row) ==
    CASE builder = "get_strategy_plan_context" ->
            IF row[2] = NaN \/ Strip(row[2].s) = <<>> THEN Str(<<"G", "e", "n", "e", "r", "a", "l">>)
            ELSE Str(Strip(row[2].s))
      [] builder = "swot_page" -> Str(Strip(row[1].s))
      [] builder = "okr_page" -> Str(Strip(row[2].s))

\* the categories of the rows that are grouped, in input order: all rows but
\* the key insights of the SWOT sheet
Categories(builder) ==
    LET rows == SelectSeq(workbook.sheets[SourceSheet(builder)].rows,
                          LAMBDA row : builder = "swot_page" =>
                                          Lower(Strip(row[1].s)) # <<"k", "e", "y", " ", "i", "n", "s", "i", "g", "h", "t">>)
    IN  [i \in 1..Len(rows) |-> CategoryOf(builder, rows[i])]

\* the groups of the context of a builder in the order it lists them
GroupOrder(builder) ==
    CASE builder = "get_strategy_plan_context" -> Keys(ctx.pillars)
      [] builder = "swot_page" -> Keys(ctx.sections)
      [] builder = "okr_page" -> [i \in 1..Len(ctx.comparison) |-> ctx.comparison[i].team]

\* C17 as stated: the pillars of the strategy plan, the categories of the
\* SWOT page and the functional teams of the OKR page are listed in the order
\* in which each is first seen in the rows of the sheet.
C17_Claimed_GroupsInFirstSeenOrder ==
    \A builder \in {"get_strategy_plan_context", "swot_page", "okr_page"} :
        Requested(builder) /\ ~Raised /\ StoredAsNamed(builder) =>
            GroupOrder(builder) = FirstSeen(Categories(builder))

\* C17 amended: the pillars of the strategy plan and the categories of the
\* SWOT page are listed in the order in which each is first seen in the rows
\* of the sheet; the functional teams of the OKR page are listed each once in
\* ascending order of their names.
C17_GroupsFirstSeenTeamsSorted ==
    /\ \A builder \in {"get_strategy_plan_context", "swot_page"} :
          Requested(builder) /\ ~Raised /\ StoredAsNamed(builder) =>
              GroupOrder(builder) = FirstSeen(Categories(builder))
    /\ Requested("okr_page") /\ ~Raised /\ StoredAsNamed("okr_page") =>
          /\ {GroupOrder("okr_page")[i] : i \in 1..Len(GroupOrder("okr_page"))}
                = {Categories("okr_page")[i] : i \in 1..Len(Categories("okr_page"))}
          /\ \A i \in 1..(Len(GroupOrder("okr_page")) - 1) :
                StrLess(GroupOrder("okr_page")[i].s, GroupOrder("okr_page")[i + 1].s)

\* C17 witness: the teams B, A, B, C of the OKR sheet are listed A, B, C
C17_Witness_TeamsListedSorted ==
    /\ Requested("okr_page")
    /\ StoredAsNamed("okr_page")
    /\ Categories("okr_page") = <<Str(<<"B">>), Str(<<"A">>), Str(<<"B">>), Str(<<"C">>)>>
    /\ GroupOrder("okr_page") = <<Str(<<"A">>), Str(<<"B">>), Str(<<"C">>)>>

\* the numeric Average cells of the rows of a team in a year, in input order
Scores(team, year) ==
    LET rows == SelectSeq(workbook.sheets["okr"].rows,
                          LAMBDA row : row[1] = MkInt(FALSE, year) /\ Str(Strip(row[2].s)) = team
                                         /\ IsNumber(row[3]))
    IN  [i \in 1..Len(rows) |-> rows[i][3]]

\* the sum of the scores in tenths of a percent: a score of magnitude at
\* most 1 is a proportion and counts a hundredfold, a greater one as it is
RECURSIVE ScoreTenths(_)
ScoreTenths(scores) ==
    IF scores = <<>> THEN 0
    ELSE (IF MagnitudeAtMostOne(Head(scores)) THEN Scaled(Head(scores), 3)
          ELSE Scaled(Head(scores), 1))
         + ScoreTenths(Tail(scores))

\* avg is the average of the scores rounded to one decimal, null without a
\* score
IsAverageScore(avg, scores) ==
    IF scores = <<>> THEN avg = None
    ELSE /\ IsNumber(avg)
         /\ Exp10(avg) <= 1
         /\ LET diff == Scaled(avg, 1) * Len(scores) - ScoreTenths(scores)
            IN  2 * diff <= Len(scores) /\ 2 * (0 - diff) <= Len(scores)

\* C18: whenever okr_page returns, the average of a team in a year is taken
\* over the numeric Average cells of its rows alone, a cell of magnitude at
\* most 1 counting a hundredfold and a greater one as it is; blank and
\* non-numeric cells are in neither the sum nor the count, and the average is
\* null when the team has no numeric cell.
C18_TeamAverageOverNumericCells ==
    Requested("okr_page") /\ ~Raised /\ StoredAsNamed("okr_page") =>
        \A i \in 1..Len(ctx.comparison) :
            /\ IsAverageScore(ctx.comparison[i].avg_2025, Scores(ctx.comparison[i].team, 2025))
            /\ IsAverageScore(ctx.comparison[i].avg_2026, Scores(ctx.comparison[i].team, 2026))

\* C18 failing input: team B with the Average cells 0.7 and blank has the
\* average nan
C18_Witness_BlankCellMakesAverageNan ==
    /\ Requested("okr_page")
    /\ StoredAsNamed("okr_page")
    /\ workbook.sheets["okr"].rows =
          << <<MkInt(FALSE, 2025), Str(<<"B">>), MkFloat(FALSE, 7, 1)>>,
             <<MkInt(FALSE, 2025), Str(<<"B">>), NaN>> >>
    /\ Len(ctx.comparison) = 1
    /\ ctx.comparison[1].avg_2025 = NaN

\* the table stored under a sheet name, the empty table without one
StoredTable(sheet_name) ==
    IF Stored(sheet_name) THEN workbook.sheets[sheet_name] ELSE EmptyFrame

\* the context a builder makes of a table
ContextOf(builder, df) ==
    CASE builder = "build_ecom_target_context" -> TargetOf(df)
      [] builder = "build_ecom_comparison_context" ->
            ComparisonOf(SetColumns(df, IF ~Empty(df) THEN StrippedLabels(df) ELSE <<>>))
      [] builder = "get_strategy_plan_context" -> StrategyPlanOf(df)
      [] builder = "okr_page" -> OkrSplit(IF ~Empty(df) THEN Records(df) ELSE <<>>)
      [] builder = "bob_page" ->
            BobContext(BobTableValues(BobRenamed(normalize_columns(df))),
                       normalize_columns(StoredTable("BOB_review")))

\* C19: whenever a builder is requested of a sheet whose header row is in
\* lower case, its result is the context it makes of the same rows under the
\* header row as the report names the columns: the letter case of the
\* headers makes no difference.
C19_HeaderCaseMakesNoDifference ==
    \A builder \in {"build_ecom_comparison_context", "get_strategy_plan_context", "okr_page", "bob_page"} :
        /\ Requested(builder)
        /\ Stored(SourceSheet(builder))
        /\ workbook.sheets[SourceSheet(builder)].columns = LowerHeader(SourceSheet(builder))
        => ctx = ContextOf(builder, DataFrame(SheetHeader(SourceSheet(builder)),
                                              workbook.sheets[SourceSheet(builder)].rows))

\* C19 failing input: under the header months, 2024, 2025 the row Jan 100 150
\* is reported without its month
C19_Witness_LowerCaseMonthsDropped ==
    /\ Requested("build_ecom_comparison_context")
    /\ Stored("ecom 2024 vs 2025")
    /\ workbook.sheets["ecom 2024 vs 2025"] =
          DataFrame(<<Str(<<"m", "o", "n", "t", "h", "s">>), MkInt(FALSE, 2024), MkInt(FALSE, 2025)>>,
                    << <<Str(<<"J", "a", "n">>), MkFloat(FALSE, 100, 0), MkFloat(FALSE, 150, 0)>> >>)
    /\ ctx.comp_rows[1]["Months"] = EmptyStr
    /\ ctx.comp_summary.max_month = EmptyStr
    /\ ctx.comp_summary.total_2025 = Str(<<"1", "5", "0">>)

RECURSIVE CollapseSpaces(_)
CollapseSpaces(s) ==
    IF s = <<>> THEN <<>>
    ELSE IF Head(s) \notin HeaderSpaces THEN <<Head(s)>> \o CollapseSpaces(Tail(s))
    ELSE IF Tail(s) # <<>> /\ Head(Tail(s)) \in HeaderSpaces THEN CollapseSpaces(Tail(s))
    ELSE <<" ">> \o CollapseSpaces(Tail(s))

\* the header with its runs of whitespace collapsed and none left at its ends
SingleSpaced(label) == Str(Strip(CollapseSpaces(StrOf(label))))

\* the header holds a tab, a no-break space or two spaces in a row
WideSpaced(label) ==
    \/ \E i \in 1..Len(label.s) : label.s[i] \in {"\t", "u00A0"}
    \/ \E i \in 1..(Len(label.s) - 1) : label.s[i] = " " /\ label.s[i + 1] = " "

\* the call of the script's target builder has returned
StandaloneTargetBuilt == Requested("generate_standalone.build_ecom_target_context")

\* columns are the headers of the stored sheet, single-spaced
AreSingleSpaced(columns, sheet_name) ==
    /\ columns = [j \in 1..Len(workbook.sheets[sheet_name].columns) |->
                     SingleSpaced(workbook.sheets[sheet_name].columns[j])]
    /\ \A j \in 1..Len(columns) : ~WideSpaced(columns[j])

\* the cell of row i under the header that single-spaced holds the words, ""
\* without such a header
CellUnder(sheet_name, words, i) ==
    LET df == workbook.sheets[sheet_name]
        named == {j \in 1..Len(df.columns) : Contains(Lower(SingleSpaced(df.columns[j]).s), words)}
    IN  IF named = {} THEN EmptyStr ELSE df.rows[i][CHOOSE j \in named : \A k \in named : j <= k]

\* C21: the target builders return the headers of the sheet with every run of
\* spaces, no-break spaces and tabs collapsed to one space and none at the
\* ends, so no returned header holds a tab, a no-break space or two spaces in
\* a row; cost_per_x finds its "Cost per X" column by the header collapsed so.
C21_HeadersSingleSpaced ==
    /\ (Requested("build_ecom_target_context") \/ StandaloneTargetBuilt) /\ Stored("2026 Ecom Target")
           => AreSingleSpaced(ctx.target_columns, "2026 Ecom Target")
    /\ Requested("cost_per_x") /\ Stored("Cost per X")
           => \A i \in 1..Len(ctx.rows) :
                  Get(ctx.rows[i], CostPerXColumns[1], None)
                      = CellUnder("Cost per X", <<"c", "o", "s", "t", " ", "p", "e", "r", " ", "x">>, i)

\* a header with three spaces between its words is returned with two
C21_Witness_ThreeSpacesLeaveTwo ==
    /\ Requested("build_ecom_target_context")
    /\ Stored("2026 Ecom Target")
    /\ workbook.sheets["2026 Ecom Target"].columns[2] = Str(<<"T", "a", "r", "g", "e", "t", " ", " ", " ", "A", "m", "o", "u", "n", "t">>)
    /\ ctx.target_columns[2] = Str(<<"T", "a", "r", "g", "e", "t", " ", " ", "A", "m", "o", "u", "n", "t">>)
\* the header holds a run of three spaces, no-break spaces or tabs
RunOfThree(label) ==
    \E i \in 1..(Len(label.s) - 2) : \A k \in i..(i + 2) : label.s[k] \in HeaderSpaces

\* the renaming rules in their order: the test, its words, the canonical name
RenameRules ==
    << <<"contains", <<"c", "o", "s", "t", " ", "p", "e", "r", " ", "x">>, Str(<<"C", "o", "s", "t", " ", "p", "e", "r", " ", "X">>)>>,
       <<"starts", <<"f", "a", "c", "t", "s">>, Str(<<"F", "a", "c", "t", "s">>)>>,
       <<"starts", <<"w", "h", "y">>, Str(<<"W", "h", "y", "?">>)>>,
       <<"contains", <<"i", "m", "p", "r", "o", "v", "e">>, Str(<<"W", "h", "a", "t", " ", "t", "o", " ", "I", "m", "p", "r", "o", "v", "e", " ", "M", "o", "r", "e", "?">>)>> >>

\* the rules a lower-cased header matches
RulesMatching(lc) ==
    {r \in 1..Len(RenameRules) :
        IF RenameRules[r][1] = "contains" THEN Contains(lc, RenameRules[r][2])
        ELSE StartsWith(lc, RenameRules[r][2])}

\* the name of the first rule the header matches, the header without a match
FirstRuleName(label) ==
    LET matching == RulesMatching(Lower(SingleSpaced(label).s))
    IN  IF matching = {} THEN SingleSpaced(label)
        ELSE RenameRules[CHOOSE r \in matching : \A q \in matching : r <= q][3]

\* the cell of row i of the cost sheet under the header renamed to name, ""
\* when no header is, and "" for a blank cell
CostCellNamed(name, i) ==
    LET df == workbook.sheets["Cost per X"]
        named == {j \in 1..Len(df.columns) : FirstRuleName(df.columns[j]) = name}
    IN  IF named = {} THEN EmptyStr
        ELSE LET cell == df.rows[i][CHOOSE j \in named : TRUE]
             IN  IF cell = NaN THEN EmptyStr ELSE cell

C28_TargetCallLeavesSheets ==
    [][ StandaloneTargetBuilt'
          => /\ standalone_sheets' = standalone_sheets
             /\ StandaloneTargetBuilt => ctx' = ctx ]_vars

\* the call has returned and the header the dict holds is no longer the one
\* of the file: three spaces were loaded, two are left
C28_Witness_HeaderOfSheetsRewritten ==
    /\ StandaloneTargetBuilt
    /\ workbook.sheets = ("2026 Ecom Target" :>
                            DataFrame(<<Str(<<"F", "u", "n", "n", "e", "l">>), Str(<<"T", "a", "r", "g", "e", "t", " ", " ", " ", "A", "m", "o", "u", "n", "t">>)>>,
                                      << <<Str(<<"A", "w", "a", "r", "e", "n", "e", "s", "s">>), MkInt(FALSE, 1200)>> >>))
    /\ standalone_sheets["2026 Ecom Target"].columns = <<Str(<<"F", "u", "n", "n", "e", "l">>), Str(<<"T", "a", "r", "g", "e", "t", " ", " ", "A", "m", "o", "u", "n", "t">>)>>
    /\ ctx.target_columns = <<Str(<<"F", "u", "n", "n", "e", "l">>), Str(<<"T", "a", "r", "g", "e", "t", " ", " ", "A", "m", "o", "u", "n", "t">>)>>
(***************************************************************************)
(* The target section.                                                     *)
(***************************************************************************)
\* a target builder, of the application or of the script, has returned
TargetBuilt ==
    (Requested("build_ecom_target_context") \/ StandaloneTargetBuilt) /\ Stored("2026 Ecom Target")

\* the table of the target sheet
TargetSheet == workbook.sheets["2026 Ecom Target"]

\* the column name holds one of the words of a number column
IsMoneyColumn(name) ==
    \E word \in {<<"a", "m", "o", "u", "n", "t">>, <<"t", "a", "r", "g", "e", "t">>, <<"s", "a", "l", "e", "s">>, <<"m", "o", "o", "n", "s", "h", "o", "t">>, <<"f", "u", "l", "f", "i", "l", "l", "m", "e", "n", "t">>} :
        Contains(Lower(name.s), word)

\* the text is the token nan, in any case, once stripped
IsNanToken(text) == Lower(Strip(text)) = <<"n", "a", "n">>

\* C23: every cell of the target rows under a column whose lower-cased name
\* holds "amount", "target", "sales", "moonshot" or "fulfillment" is the
\* money format of the parsed number, "" when the cell does not parse; every
\* other cell is the stripped display value, "" for the token nan in any
\* case; no output cell is the token nan.
C23_TargetCellsCleaned ==
    TargetBuilt /\ TargetSheet.rows # <<>>
        => \A i \in 1..Len(ctx.target_rows) : \A j \in 1..Len(ctx.target_columns) :
               /\ ctx.target_rows[i][j][2] =
                      IF IsMoneyColumn(ctx.target_columns[j])
                      THEN IF parse_number(TargetSheet.rows[i][j]) # None
                           THEN fmt_money(parse_number(TargetSheet.rows[i][j]), <<>>)
                           ELSE EmptyStr
                      ELSE IF IsNanToken(StrOf(TargetSheet.rows[i][j])) THEN EmptyStr
                           ELSE Str(Strip(StrOf(TargetSheet.rows[i][j])))
               /\ ~IsNanToken(StrOf(ctx.target_rows[i][j][2]))

\* the text cell "NAN" of the first column is returned as it is
C23_Witness_UpperCaseNanKept ==
    /\ Requested("build_ecom_target_context")
    /\ Stored("2026 Ecom Target")
    /\ TargetSheet.columns[1] = Str(<<"F", "u", "n", "n", "e", "l">>)
    /\ Len(TargetSheet.rows) = 1
    /\ TargetSheet.rows[1] = <<Str(<<"N", "A", "N">>), MkFloat(FALSE, 35005, 1),
                               Str(<<"C", "h", "e", "c", "k", "o", "u", "t", " ", "c", "o", "m", "p", "l", "e", "t", "i", "o", "n", " ", "i", "m", "p", "r", "o", "v", "e", "d", " ", "a", "f", "t", "e", "r", " ", "t", "h", "e", " ", "r", "e", "d", "e", "s", "i", "g", "n">>)>>
    /\ ctx.target_rows[1][1] = <<Str(<<"F", "u", "n", "n", "e", "l">>), Str(<<"N", "A", "N">>)>>
    /\ ctx.target_rows[1][2][2] = Str(<<"3", ",", "5", "0", "0", ".", "5", "0">>)
\* the stripped texts of the cells that are neither blank nor the token nan
RECURSIVE SpokenCells(_)
SpokenCells(cells) ==
    IF cells = <<>> THEN <<>>
    ELSE (IF Strip(StrOf(Head(cells))) = <<>> \/ IsNanToken(StrOf(Head(cells))) THEN <<>>
          ELSE <<Strip(StrOf(Head(cells)))>>)
           \o SpokenCells(Tail(cells))

\* the texts with one space between them
RECURSIVE SpaceJoined(_)
SpaceJoined(texts) ==
    IF texts = <<>> THEN <<>>
    ELSE IF Len(texts) = 1 THEN Head(texts)
    ELSE Head(texts) \o <<" ">> \o SpaceJoined(Tail(texts))

\* the rows of the target sheet whose first cell holds "insight" in any case
InsightRows ==
    {i \in 1..Len(TargetSheet.rows) : Contains(Lower(StrOf(TargetSheet.rows[i][1])), <<"i", "n", "s", "i", "g", "h", "t">>)}

\* C24: when a row of the target sheet has "insight" in its first column, in
\* any case, the insight text is that of the first such row: the values of
\* its other columns in column order, blank and nan cells left out, joined by
\* one space; it is this text also when it is empty and another row would
\* pass as prose.
C24_InsightOfFirstMarkedRow ==
    TargetBuilt /\ InsightRows # {}
        => ctx.target_insight =
               Str(SpaceJoined(SpokenCells(Tail(
                   TargetSheet.rows[CHOOSE i \in InsightRows : \A k \in InsightRows : i <= k]))))

\* a row of prose, then a marked row without text, then a marked row with
\* text: the insight is empty
C24_Witness_EmptyInsightNoFallback ==
    /\ Requested("build_ecom_target_context")
    /\ Stored("2026 Ecom Target")
    /\ Len(TargetSheet.rows) = 3
    /\ TargetSheet.rows[1][1] = Str(<<"N", "o", "t", "e">>)
    /\ TargetSheet.rows[2] = <<Str(<<"i", "n", "s", "i", "g", "h", "t", "s">>), NaN, Str(<<" ", "N", "a", "N", " ">>)>>
    /\ TargetSheet.rows[3] = <<Str(<<"K", "e", "y", " ", "I", "n", "s", "i", "g", "h", "t">>), Str(<<" ", "V", "i", "d", "e", "o", " ", "a", "d", "s", " ", "c", "o", "n", "v", "e", "r", "t", " ">>), NaN>>
    /\ ctx.target_insight = EmptyStr
\* the text holds three digits in a row
ThreeDigits(text) ==
    \E i \in 1..(Len(text) - 2) :
        \A k \in i..(i + 2) : text[k] \in {"0", "1", "2", "3", "4", "5", "6", "7", "8", "9"}

\* the rows of the target sheet that read as prose: more than 40 characters
\* of joined cell text and no three digits in a row
ProseRows ==
    {i \in 1..Len(TargetSheet.rows) :
        /\ Len(SpaceJoined(SpokenCells(TargetSheet.rows[i]))) > 40
        /\ ~ThreeDigits(SpaceJoined(SpokenCells(TargetSheet.rows[i])))}

\* C25: when no row of the target sheet has "insight" in its first column,
\* build_ecom_target_context of src/app.py takes as insight the joined cell
\* text of the last row that is longer than 40 characters and has no run of
\* three digits, and the empty text when there is no such row.
C25_InsightOfLastProseRow ==
    Requested("build_ecom_target_context") /\ Stored("2026 Ecom Target")
      /\ TargetSheet.rows # <<>> /\ InsightRows = {}
        => ctx.target_insight =
               IF ProseRows = {} THEN EmptyStr
               ELSE Str(SpaceJoined(SpokenCells(
                        TargetSheet.rows[CHOOSE i \in ProseRows : \A k \in ProseRows : i >= k])))

\* from the last row up: a text of exactly 40 characters and a longer one
\* with the number 3500.5 are passed over, the row above them is taken
C25_Witness_ShortAndNumberedRowsSkipped ==
    /\ Requested("build_ecom_target_context")
    /\ Stored("2026 Ecom Target")
    /\ Len(TargetSheet.rows) = 3
    /\ TargetSheet.rows[1][1] = Str(<<"R", "e", "t", "e", "n", "t", "i", "o", "n">>)
    /\ TargetSheet.rows[2][2] = MkFloat(FALSE, 35005, 1)
    /\ TargetSheet.rows[3][1] = Str(<<"L", "o", "y", "a", "l", "t", "y">>)
    /\ ctx.target_insight = Str(<<"R", "e", "t", "e", "n", "t", "i", "o", "n", " ", "4", "5", ".", "5", " ", "R", "e", "p", "e", "a", "t", " ", "b", "u", "y", "e", "r", "s", " ", "c", "o", "m", "e", " ", "b", "a", "c", "k", " ", "w", "i", "t", "h", "i", "n", " ", "t", "w", "o", " ", "w", "e", "e", "k", "s">>)
(***************************************************************************)
(* The roadmap section.                                                    *)
(***************************************************************************)
\* a roadmap builder, of the application or of the script, was called on a
\* table with rows
RoadmapBuilt ==
    /\ Requested("get_roadmap_context") \/ Requested("generate_standalone.get_roadmap_context")
    /\ Stored("roadmap")
    /\ workbook.sheets["roadmap"].rows # <<>>

\* the quarter of row i of the roadmap sheet, whose first column is Quarter
QuarterOfRow(i) ==
    LET cell == workbook.sheets["roadmap"].rows[i][1]
    IN  IF cell = NaN \/ Strip(StrOf(cell)) = <<>> THEN Str(<<"U", "n", "a", "s", "s", "i", "g", "n", "e", "d">>) ELSE Str(StrOf(cell))

\* the owners, the third column, of the rows of a quarter in input order
OwnersOfQuarter(q) ==
    LET rows == workbook.sheets["roadmap"].rows
        of == SelectSeq([i \in 1..Len(rows) |-> i], LAMBDA i : QuarterOfRow(i) = q)
    IN  [k \in 1..Len(of) |-> rows[of[k]][3]]

\* C26: get_roadmap_context returns, without raising, quarters with one group
\* for each quarter of the table, a blank Quarter read as "Unassigned", each
\* group holding its rows in input order, and quarter_order as the keys of
\* quarters in ascending order, each once.
C26_RowsGroupedByQuarter ==
    RoadmapBuilt
        => /\ ~Raised
           /\ {ctx.quarters[g][1] : g \in 1..Len(ctx.quarters)}
                  = {QuarterOfRow(i) : i \in 1..Len(workbook.sheets["roadmap"].rows)}
           /\ \A g, h \in 1..Len(ctx.quarters) : g # h => ctx.quarters[g][1] # ctx.quarters[h][1]
           /\ \A g \in 1..Len(ctx.quarters) :
                  [k \in 1..Len(ctx.quarters[g][2]) |-> ctx.quarters[g][2][k].Owner]
                      = OwnersOfQuarter(ctx.quarters[g][1])
           /\ Len(ctx.quarter_order) = Len(ctx.quarters)
           /\ {ctx.quarter_order[n] : n \in 1..Len(ctx.quarter_order)}
                  = {ctx.quarters[g][1] : g \in 1..Len(ctx.quarters)}
           /\ \A n \in 1..(Len(ctx.quarter_order) - 1) :
                  StrLess(ctx.quarter_order[n].s, ctx.quarter_order[n + 1].s)

\* the row with an empty Quarter cell is in the group "nan"
C26_Witness_BlankQuarterNamedNan ==
    /\ Requested("get_roadmap_context")
    /\ Stored("roadmap")
    /\ workbook.sheets["roadmap"].rows = << <<Str(<<"Q", "1">>), NaN, Str(<<"B", "o", "b">>)>>, <<NaN, Str(<<"P", "l", "a", "n">>), Str(<<"D", "e", "e">>)>> >>
    /\ ctx.quarter_order = <<Str(<<"Q", "1">>), Str(<<"n", "a", "n">>)>>
(***************************************************************************)
(* The strategy plan.                                                      *)
(***************************************************************************)
\* the table of the strategy sheet: Goal, Strategy Pillar, Action
StrategySheet == workbook.sheets["2026 Strategy plan"]

\* the stripped text of a cell, empty for a blank cell
CellText(cell) == IF cell = NaN THEN <<>> ELSE Strip(StrOf(cell))

\* the rows up to row i that name a goal
GoalRowsUpTo(i) == {k \in 1..i : CellText(StrategySheet.rows[k][1]) # <<>>}

\* the goal in force at row i: that of the last row up to i that names one
GoalAt(i) ==
    IF GoalRowsUpTo(i) = {} THEN EmptyStr
    ELSE Str(CellText(StrategySheet.rows[CHOOSE k \in GoalRowsUpTo(i) :
                                             \A n \in GoalRowsUpTo(i) : n <= k][1]))

\* the pillar of row i, "General" for a blank one
PillarOfRow(i) ==
    IF CellText(StrategySheet.rows[i][2]) = <<>> THEN Str(<<"G", "e", "n", "e", "r", "a", "l">>)
    ELSE Str(CellText(StrategySheet.rows[i][2]))

\* goal and action of the rows of a pillar, in input order
EntriesOfPillar(pillar) ==
    LET of == SelectSeq([i \in 1..Len(StrategySheet.rows) |-> i], LAMBDA i : PillarOfRow(i) = pillar)
    IN  [k \in 1..Len(of) |->
            <<GoalAt(of[k]),
              IF StrategySheet.rows[of[k]][3] = NaN THEN EmptyStr ELSE StrategySheet.rows[of[k]][3]>>]

\* C27: get_strategy_plan_context gives every entry the goal of the last row
\* at or before its own that names one ("" before the first), goal_text the
\* last goal named in the table or "2026 Strategy Plan" without one, and puts
\* every row in the group of its pillar, "General" for a blank pillar, in
\* input order and in no other group.
C27_GoalCarriedRowsGrouped ==
    Requested("get_strategy_plan_context") /\ Stored("2026 Strategy plan")
      /\ StrategySheet.rows # <<>>
        => /\ ctx.goal_text = IF GoalAt(Len(StrategySheet.rows)) = EmptyStr
                              THEN Str(<<"2", "0", "2", "6", " ", "S", "t", "r", "a", "t", "e", "g", "y", " ", "P", "l", "a", "n">>)
                              ELSE GoalAt(Len(StrategySheet.rows))
           /\ {ctx.pillars[g][1] : g \in 1..Len(ctx.pillars)}
                  = {PillarOfRow(i) : i \in 1..Len(StrategySheet.rows)}
           /\ \A g, h \in 1..Len(ctx.pillars) : g # h => ctx.pillars[g][1] # ctx.pillars[h][1]
           /\ \A g \in 1..Len(ctx.pillars) :
                  [k \in 1..Len(ctx.pillars[g][2]) |->
                      <<ctx.pillars[g][2][k].goal, ctx.pillars[g][2][k].action>>]
                      = EntriesOfPillar(ctx.pillars[g][1])

\* a row before the first goal, two goals, and a row without goal or pillar
\* after the second
C27_Witness_SecondGoalCarried ==
    /\ Requested("get_strategy_plan_context")
    /\ Stored("2026 Strategy plan")
    /\ StrategySheet.rows = << <<NaN, Str(<<"A">>), Str(<<"M", "a", "i", "l">>)>>, <<Str(<<"G", "r", "o", "w">>), Str(<<"B">>), Str(<<"A", "d", "s">>)>>,
                               <<Str(<<"R", "e", "t", "a", "i", "n", " ">>), NaN, Str(<<"S", "E", "O">>)>>, <<Str(<<" ">>), Str(<<" ">>), NaN>> >>
    /\ ctx.goal_text = Str(<<"R", "e", "t", "a", "i", "n">>)
    /\ Keys(ctx.pillars) = <<Str(<<"A">>), Str(<<"B">>), Str(<<"G", "e", "n", "e", "r", "a", "l">>)>>
    /\ ctx.pillars[1][2][1].goal = EmptyStr
    /\ ctx.pillars[3][2][2].goal = Str(<<"R", "e", "t", "a", "i", "n">>)
(***************************************************************************)
(* The comparison section of the application and of the script.            *)
(***************************************************************************)
\* the comparison sheet has rows, and every row has a month and numbers
\* above zero for both years
AllMonthsPositive ==
    /\ Stored("ecom 2024 vs 2025")
    /\ workbook.sheets["ecom 2024 vs 2025"].columns = SheetHeader("ecom 2024 vs 2025")
    /\ workbook.sheets["ecom 2024 vs 2025"].rows # <<>>
    /\ \A i \in 1..Len(workbook.sheets["ecom 2024 vs 2025"].rows) :
           LET row == workbook.sheets["ecom 2024 vs 2025"].rows[i]
           IN  /\ IsStr(row[1]) /\ Strip(row[1].s) # <<>>
               /\ \A j \in {2, 3} : IsNumber(row[j]) /\ ~row[j].neg /\ row[j].m > 0

\* the context the other implementation makes of the stored workbook
OtherComparison ==
    IF Requested("build_ecom_comparison_context")
    THEN standalone_build_ecom_comparison_context(workbook.sheets)
    ELSE ContextOf("build_ecom_comparison_context", StoredTable("ecom 2024 vs 2025"))

\* C29: on a comparison table with rows that all have a month and numbers above
\* zero for 2024 and 2025, build_ecom_comparison_context of src/app.py and
\* that of generate_standalone.py return the same number of rows, the same
\* delta and delta_pct in every row, and the same texts total_2024,
\* total_2025, avg_2024 and avg_2025.
C29_ComparisonsAgreeOnPositiveTables ==
    ComparisonBuilt /\ AllMonthsPositive
        => /\ Len(ctx.comp_rows) = Len(OtherComparison.comp_rows)
           /\ \A i \in 1..Len(ctx.comp_rows) :
                  /\ ctx.comp_rows[i]["delta"] = OtherComparison.comp_rows[i]["delta"]
                  /\ ctx.comp_rows[i]["delta_pct"] = OtherComparison.comp_rows[i]["delta_pct"]
           /\ Len(ctx.comp_rows) > 0
                  => /\ ctx.comp_summary.total_2024 = OtherComparison.comp_summary.total_2024
                     /\ ctx.comp_summary.total_2025 = OtherComparison.comp_summary.total_2025
                     /\ ctx.comp_summary.avg_2024 = OtherComparison.comp_summary.avg_2024
                     /\ ctx.comp_summary.avg_2025 = OtherComparison.comp_summary.avg_2025

\* the 2024 value 0.00001 of March is read as 0: the application reports the
\* delta 50 and the total 200, the script the delta 0 and the total 150
C29_Witness_SmallValueReadAsZero ==
    /\ Requested("build_ecom_comparison_context")
    /\ AllMonthsPositive
    /\ workbook.sheets["ecom 2024 vs 2025"].rows
           = << <<Str(<<"J", "a", "n">>), MkFloat(FALSE, 100, 0), MkFloat(FALSE, 150, 0)>>,
                <<Str(<<"M", "a", "r">>), MkFloat(FALSE, 1, 5), MkFloat(FALSE, 50, 0)>> >>
    /\ ctx.comp_rows[2]["2024"] = Zero
    /\ ctx.comp_rows[2]["delta"] = MkFloat(FALSE, 50, 0)
    /\ OtherComparison.comp_rows[2]["delta"] = Zero
    /\ ctx.comp_summary.total_2025 = Str(<<"2", "0", "0">>)
    /\ OtherComparison.comp_summary.total_2025 = Str(<<"1", "5", "0">>)
(***************************************************************************)
(* The BOB page.                                                           *)
(***************************************************************************)
\* bob_page has returned for a BOB sheet under its five headers
BobBuilt ==
    Requested("bob_page") /\ Stored("BOB") /\ workbook.sheets["BOB"].columns = BobHeader

\* a cell as a count of tenths, 0 for a cell that does not parse
BobTenths(cell) == Scaled(NumberOrZero(cell), 1)

\* the sum of column j of the rows, in tenths
RECURSIVE BobTotalTenths(_, _)
BobTotalTenths(rows, j) ==
    IF rows = <<>> THEN 0 ELSE BobTenths(Head(rows)[j]) + BobTotalTenths(Tail(rows), j)

\* the rows of the BOB sheet whose Grand Total no row exceeds
GreatestGrandRows ==
    {i \in 1..Len(workbook.sheets["BOB"].rows) :
        \A k \in 1..Len(workbook.sheets["BOB"].rows) :
            BobTenths(workbook.sheets["BOB"].rows[k][4]) <= BobTenths(workbook.sheets["BOB"].rows[i][4])}

\* the first of them
FirstGreatestGrand == CHOOSE i \in GreatestGrandRows : \A k \in GreatestGrandRows : i <= k

\* C30: bob_page names as best month the first row whose Grand Total is the
\* greatest of the table when that is above 0, and "-" with the value 0 when
\* no Grand Total is; its totals of BOB, Self and Grand are the sums of the
\* columns over all rows, a cell that does not parse counting 0; the chart
\* lists months, bob, self and cs have one element for each row.
C30_BestMonthTotalsAndChart ==
    BobBuilt
        => /\ IF workbook.sheets["BOB"].rows # <<>>
                   /\ BobTenths(workbook.sheets["BOB"].rows[FirstGreatestGrand][4]) > 0
              THEN /\ ctx.summary.best_month = ctx.chart_data.months[FirstGreatestGrand]
                   /\ IsRoundedQuotient(ctx.summary.best_month_value.s,
                                        BobTenths(workbook.sheets["BOB"].rows[FirstGreatestGrand][4]), 10)
              ELSE /\ ctx.summary.best_month = Str(<<"-">>)
                   /\ ctx.summary.best_month_value = Str(<<"0">>)
           /\ IsRoundedQuotient(ctx.summary.total_bob.s, BobTotalTenths(workbook.sheets["BOB"].rows, 2), 10)
           /\ IsRoundedQuotient(ctx.summary.total_self.s, BobTotalTenths(workbook.sheets["BOB"].rows, 3), 10)
           /\ IsRoundedQuotient(ctx.summary.total_grand.s, BobTotalTenths(workbook.sheets["BOB"].rows, 4), 10)
           /\ \A list \in {ctx.chart_data.months, ctx.chart_data.bob, ctx.chart_data.self, ctx.chart_data.cs} :
                  Len(list) = Len(workbook.sheets["BOB"].rows)
           /\ Len(ctx.rows) = Len(workbook.sheets["BOB"].rows)

\* May has -3, Jan and Feb both 25: Jan is the best month; the Self total
\* 25.5 is shown as "26"
C30_Witness_FirstOfEqualTotals ==
    /\ BobBuilt
    /\ Len(workbook.sheets["BOB"].rows) = 3
    /\ workbook.sheets["BOB"].rows[1][1] = Str(<<"M", "a", "y">>)
    /\ workbook.sheets["BOB"].rows[2][1] = Str(<<"J", "a", "n">>)
    /\ workbook.sheets["BOB"].rows[3][1] = Str(<<"F", "e", "b">>)
    /\ ctx.summary.best_month = Str(<<"J", "a", "n">>)
    /\ ctx.summary.best_month_value = Str(<<"2", "5">>)
    /\ ctx.summary.total_grand = Str(<<"4", "7">>)
    /\ ctx.summary.total_self = Str(<<"2", "6">>)

====
